---- MODULE Spec2Model ----
(***************************************************************************)
(* The label strip data model of jackfield_labeler (models/segment.py,     *)
(* models/segment_types.py, models/label_strip.py, models/color.py,        *)
(* models/strip_settings.py) as a state machine over one LabelStrip        *)
(* object and the calls made on it.                                        *)
(*                                                                         *)
(* Lengths are integers counted in ticks: TicksPerMilli ticks make         *)
(* 0.001 mm, the precision round(value, 3) keeps, so a width that is not   *)
(* a multiple of TicksPerMilli is finer than that precision.               *)
(***************************************************************************)
EXTENDS Integers, Sequences, FiniteSets, TLC

VARIABLES
    strip,      \* the LabelStrip object the calls act on
    pre,        \* history: the strip as it was when the last call began
    last,       \* history: the last call, its arguments and what it raised
    discarded,  \* history: cells cut off by the call before a regrow
    document,   \* the strip document from_dict is given, None when there is none
    output      \* what the last call returned or produced, if it left the strip alone

vars == <<strip, pre, last, discarded, document, output>>

----------------------------------------------------------------------------
(* Bounds of the model *)

\* ticks per 0.001 mm
TicksPerMilli == 3
\* largest content segment count the calls ask for
MaxCells == 2

MILLI == TicksPerMilli
MM == 1000 * TicksPerMilli

----------------------------------------------------------------------------
(* Python values *)

\* None, and an optional value holding x
None == <<>>
Some(x) == <<x>>
IsNone(o) == o = <<>>
The(o) == o[1]

\* dict.get(key, default)
Get(d, k, dflt) == IF k \in DOMAIN d THEN d[k] ELSE dflt

\* round(value, 3): the nearest multiple of 0.001, an exact tie to the even one
Round3(v) ==
    LET q == v \div TicksPerMilli
        r == v % TicksPerMilli
    IN  IF 2 * r < TicksPerMilli THEN q * TicksPerMilli
        ELSE IF 2 * r > TicksPerMilli THEN (q + 1) * TicksPerMilli
        ELSE IF q % 2 = 0 THEN q * TicksPerMilli
        ELSE (q + 1) * TicksPerMilli

Max(a, b) == IF b > a THEN b ELSE a
Min(a, b) == IF b < a THEN b ELSE a

----------------------------------------------------------------------------
(* models/text_format.py *)

NORMAL == "NORMAL"
BOLD == "BOLD"
ITALIC == "ITALIC"
BOLD_ITALIC == "BOLD_ITALIC"
TextFormat == {NORMAL, BOLD, ITALIC, BOLD_ITALIC}

----------------------------------------------------------------------------
(* models/color.py *)

Color(r, g, b) == [r |-> r, b |-> b, g |-> g]

HexChars == <<"0", "1", "2", "3", "4", "5", "6", "7",
              "8", "9", "a", "b", "c", "d", "e", "f">>
UpperHexChars == <<"0", "1", "2", "3", "4", "5", "6", "7",
                   "8", "9", "A", "B", "C", "D", "E", "F">>

\* the digits of n >= 0 in base 16, lowercase, most significant first
RECURSIVE HexDigits(_)
HexDigits(n) ==
    IF n < 16 THEN <<HexChars[n + 1]>>
    ELSE HexDigits(n \div 16) \o <<HexChars[(n % 16) + 1]>>

\* format(n, "x"): no padding
FormatX(n) ==
    IF n < 0 THEN <<"-">> \o HexDigits(-n) ELSE HexDigits(n)

\* format(n, "02x"): zero padded to two characters, the sign counted in them
Format02x(n) ==
    IF n < 0 THEN <<"-">> \o HexDigits(-n)
    ELSE IF n < 16 THEN <<"0">> \o HexDigits(n)
    ELSE HexDigits(n)

to_hex(c) == <<"#">> \o Format02x(c.r) \o Format02x(c.g) \o Format02x(c.b)

\* the value of each base 16 digit, of either case
HexValues ==
    [ch \in {HexChars[i] : i \in 1..16} \cup {UpperHexChars[i] : i \in 1..16} |->
        (CHOOSE i \in 1..16 : HexChars[i] = ch \/ UpperHexChars[i] = ch) - 1]

\* the value of one base 16 digit, -1 when ch is none
HexValue(ch) == IF ch \in DOMAIN HexValues THEN HexValues[ch] ELSE -1

\* str.lstrip("#"): every leading "#" is removed
RECURSIVE lstrip_hash(_)
lstrip_hash(s) ==
    IF s # <<>> /\ Head(s) = "#" THEN lstrip_hash(Tail(s)) ELSE s

\* str.strip(): blanks removed at both ends
RECURSIVE lstrip_blank(_)
lstrip_blank(s) ==
    IF s # <<>> /\ Head(s) = " " THEN lstrip_blank(Tail(s)) ELSE s
RECURSIVE rstrip_blank(_)
rstrip_blank(s) ==
    IF s # <<>> /\ s[Len(s)] = " " THEN rstrip_blank(SubSeq(s, 1, Len(s) - 1)) ELSE s

\* the value of a run of base 16 digits, -1 when a character is no digit
RECURSIVE DigitsValue(_, _)
DigitsValue(s, acc) ==
    IF s = <<>> THEN acc
    ELSE IF HexValue(Head(s)) < 0 THEN -1
    ELSE DigitsValue(Tail(s), acc * 16 + HexValue(Head(s)))

\* int(s, 16) of a slice of at most two characters: blanks around it and one
\* sign before the digits are accepted; anything else raises ValueError
int16_value(negative, v) ==
    IF v < 0 THEN [raised |-> "ValueError", val |-> 0]
    ELSE [raised |-> "None", val |-> IF negative THEN -v ELSE v]
int16_digits(digits) ==
    IF digits = <<>> THEN -1 ELSE DigitsValue(digits, 0)
int16_stripped(t) ==
    IF t # <<>> /\ Head(t) \in {"+", "-"}
    THEN int16_value(Head(t) = "-", int16_digits(Tail(t)))
    ELSE int16_value(FALSE, int16_digits(t))
int16(s) == int16_stripped(rstrip_blank(lstrip_blank(s)))

\* s[i:j] with 0-based bounds, cut to the string's length
Slice(s, i, j) == SubSeq(s, i + 1, Min(j, Len(s)))

\* cls(r=..., g=..., b=...) of from_hex, r, g and b the three int() results
from_hex_channels(r, g, b) ==
    IF r.raised # "None" \/ g.raised # "None" \/ b.raised # "None"
    THEN [raised |-> "ValueError", val |-> Color(0, 0, 0)]
    ELSE [raised |-> "None", val |-> Color(r.val, g.val, b.val)]
from_hex_stripped(h) ==
    from_hex_channels(int16(Slice(h, 0, 2)), int16(Slice(h, 2, 4)),
                      int16(Slice(h, 4, 6)))
from_hex(hex_color) == from_hex_stripped(lstrip_hash(hex_color))

\* the module's colour instances: from_hex of "#000000", "#FFFFFF",
\* "#FF0000" and "#FFFF00"
BLACK == Color(0, 0, 0)
WHITE == Color(255, 255, 255)
RED == Color(255, 0, 0)
YELLOW == Color(255, 255, 0)

----------------------------------------------------------------------------
(* models/strip_settings.py, views/settings_tab.py *)

PageMargins(top, right, bottom, left) ==
    [top |-> top, right |-> right, bottom |-> bottom, left |-> left]

\* StripSettings(): the dataclass defaults.  The class declares no
\* rotation_angle field: the attribute exists only once the settings tab
\* has assigned it.
StripSettings ==
    [paper_size |-> "A4",
     page_margins |-> PageMargins(10 * MM, 10 * MM, 10 * MM, 10 * MM),
     default_font_name |-> "Arial",
     default_font_size |-> 8,
     default_text_color |-> BLACK,
     default_background_color |-> WHITE,
     rotation_angle |-> None]

\* SettingsTab._apply_settings: every field is assigned from the widgets,
\* rotation_angle among them
apply_settings(settings, ui) ==
    [paper_size |-> ui.paper_size,
     page_margins |-> ui.page_margins,
     default_font_name |-> ui.default_font_name,
     default_font_size |-> ui.default_font_size,
     default_text_color |-> ui.default_text_color,
     default_background_color |-> ui.default_background_color,
     rotation_angle |-> Some(ui.rotation_angle)]

StripSettings_to_dict(settings) ==
    [paper_size |-> settings.paper_size,
     page_margins |-> settings.page_margins,
     default_font_name |-> settings.default_font_name,
     default_font_size |-> settings.default_font_size,
     default_text_color |-> to_hex(settings.default_text_color),
     default_background_color |-> to_hex(settings.default_background_color)]

PaperSize == {"A4", "A3", "A2", "A1", "A0", "Letter", "Legal", "Tabloid"}

\* PageMargins(top=margins_data.get("top", 10.0), ...)
margins_from_dict(margins_data) ==
    PageMargins(Get(margins_data, "top", 10 * MM),
                Get(margins_data, "right", 10 * MM),
                Get(margins_data, "bottom", 10 * MM),
                Get(margins_data, "left", 10 * MM))

\* cls(...) of StripSettings.from_dict, the two colours already parsed
settings_with_colors(data, text_color, background_color) ==
    IF Get(data, "paper_size", "A4") \notin PaperSize
         \/ text_color.raised # "None" \/ background_color.raised # "None"
    THEN [raised |-> "ValueError", val |-> StripSettings]
    ELSE [raised |-> "None",
          val |-> [paper_size |-> Get(data, "paper_size", "A4"),
                   page_margins |->
                       margins_from_dict(Get(data, "page_margins", <<>>)),
                   default_font_name |-> Get(data, "default_font_name", "Arial"),
                   default_font_size |-> Get(data, "default_font_size", 8),
                   default_text_color |-> text_color.val,
                   default_background_color |-> background_color.val,
                   rotation_angle |-> None]]

StripSettings_from_dict(data) ==
    settings_with_colors(data,
        from_hex(Get(data, "default_text_color",
                     <<"#", "0", "0", "0", "0", "0", "0">>)),
        from_hex(Get(data, "default_background_color",
                     <<"#", "F", "F", "F", "F", "F", "F">>)))

----------------------------------------------------------------------------
(* models/segment.py, models/segment_types.py *)

\* Segment.__init__: every argument is stored as given
Segment(type, segment_id, text, width, text_format, text_color, background_color) ==
    [text_color |-> text_color,
     background_color |-> background_color,
     type |-> type,
     text |-> text,
     width |-> width,
     text_format |-> text_format,
     id |-> segment_id]

StartSegment(width, text, text_format, text_color, background_color) ==
    Segment("start", "L_START", text, width, text_format, text_color, background_color)

ContentSegment(segment_id, width, text, text_format, text_color, background_color) ==
    Segment("content", segment_id, text, width, text_format, text_color, background_color)

EndSegment(width, text, text_format, text_color, background_color) ==
    Segment("end", "L_END", text, width, text_format, text_color, background_color)

\* a width setter that stores the value as given
Segment_set_widthNoRound(segment, value) ==
    IF value < 0 THEN [raised |-> "SegmentWidthError", self |-> segment]
    ELSE [raised |-> "None", self |-> [segment EXCEPT !.width = value]]

\* the width setter
Segment_set_width(segment, value) ==
    IF value < 0 THEN [raised |-> "SegmentWidthError", self |-> segment]
    ELSE [raised |-> "None", self |-> [segment EXCEPT !.width = Round3(value)]]

Segment_set_text(segment, value) == [segment EXCEPT !.text = value]
Segment_set_text_format(segment, value) == [segment EXCEPT !.text_format = value]
Segment_set_text_color(segment, value) == [segment EXCEPT !.text_color = value]
Segment_set_background_color(segment, value) ==
    [segment EXCEPT !.background_color = value]

Segment_to_dict(segment) ==
    [text_color |-> to_hex(segment.text_color),
     background_color |-> to_hex(segment.background_color),
     type |-> segment.type,
     text |-> segment.text,
     width |-> segment.width,
     text_format |-> segment.text_format,
     id |-> segment.id]

\* str.upper() and str.lower() on the strings the documents carry
upper(s) ==
    CASE s \in {"normal", "Normal"} -> "NORMAL"
      [] s \in {"bold", "Bold"} -> "BOLD"
      [] s \in {"italic", "Italic"} -> "ITALIC"
      [] s \in {"bold_italic", "Bold_Italic"} -> "BOLD_ITALIC"
      [] s = "fancy" -> "FANCY"
      [] OTHER -> s
lower(s) ==
    CASE s \in {"START", "Start"} -> "start"
      [] s \in {"CONTENT", "Content"} -> "content"
      [] s \in {"END", "End"} -> "end"
      [] s = "MIDDLE" -> "middle"
      [] OTHER -> s

\* a lookup that falls back to BOLD
text_format_lookupBold(text_format_str) ==
    IF text_format_str \in TextFormat THEN text_format_str ELSE BOLD

\* the text_format lookup shared by the three from_dict methods:
\* TextFormat[text_format_str], NORMAL on KeyError
text_format_lookup(text_format_str) ==
    IF text_format_str \in TextFormat THEN text_format_str ELSE NORMAL
text_format_from_dict(data) ==
    text_format_lookup(upper(Get(data, "text_format", "NORMAL")))

\* cls(...) of the three from_dict methods, the two colours already parsed
segment_with_colors(type, segment_id, default_width, data, text_color, background_color) ==
    IF text_color.raised # "None" \/ background_color.raised # "None"
    THEN [raised |-> "ValueError", val |-> None]
    ELSE [raised |-> "None",
          val |-> Some(Segment(type, segment_id,
                               Get(data, "text", ""),
                               Get(data, "width", default_width),
                               text_format_from_dict(data),
                               text_color.val, background_color.val))]

\* the construction shared by the three from_dict methods
segment_from_dict(type, segment_id, default_width, data) ==
    segment_with_colors(type, segment_id, default_width, data,
        from_hex(Get(data, "text_color",
                     <<"#", "0", "0", "0", "0", "0", "0">>)),
        from_hex(Get(data, "background_color",
                     <<"#", "F", "F", "F", "F", "F", "F">>)))

StartSegment_from_dict(data) == segment_from_dict("start", "L_START", 0, data)
ContentSegment_from_dict(data) ==
    segment_from_dict("content", Get(data, "id", "0"), 10 * MM, data)
EndSegment_from_dict(data) == segment_from_dict("end", "L_END", 0, data)

\* a factory that takes a segment of any other type for a content cell
create_segment_of_typeLenient(segment_type, data) ==
    CASE segment_type = "start" -> StartSegment_from_dict(data)
      [] segment_type = "end" -> EndSegment_from_dict(data)
      [] OTHER -> ContentSegment_from_dict(data)

create_segment_of_type(segment_type, data) ==
    CASE segment_type = "start" -> StartSegment_from_dict(data)
      [] segment_type = "content" -> ContentSegment_from_dict(data)
      [] segment_type = "end" -> EndSegment_from_dict(data)
      [] OTHER -> [raised |-> "UnknownSegmentTypeError", val |-> None]
create_segment_from_dict(data) ==
    create_segment_of_type(lower(Get(data, "type", "")), data)

----------------------------------------------------------------------------
(* models/label_strip.py *)

MIN_HEIGHT == 5 * MM
MAX_HEIGHT == 12 * MM
MAX_WIDTH == 500 * MM

\* a constructor that stores the height as given
LabelStripNoClamp(height) ==
    [settings |-> StripSettings,
     height |-> height,
     start_segment |-> None,
     end_segment |-> None,
     content_segments |-> <<>>,
     content_cell_width |-> 10 * MM]

\* LabelStrip.__init__
LabelStrip(height) ==
    [settings |-> StripSettings,
     height |-> Max(MIN_HEIGHT, Min(height, MAX_HEIGHT)),
     start_segment |-> None,
     end_segment |-> None,
     content_segments |-> <<>>,
     content_cell_width |-> 10 * MM]

\* the height setter
set_height(self, value) ==
    [raised |-> "None",
     self |-> [self EXCEPT !.height = Max(MIN_HEIGHT, Min(value, MAX_HEIGHT))]]

\* a content_cell_width setter that leaves the existing cells alone
set_content_cell_widthKeepCells(self, value) ==
    IF value <= 0 THEN [raised |-> "ContentCellWidthError", self |-> self]
    ELSE [raised |-> "None",
          self |-> [self EXCEPT !.content_cell_width = Round3(value)]]

\* the content_cell_width setter
set_content_cell_width(self, value) ==
    IF value <= 0 THEN [raised |-> "ContentCellWidthError", self |-> self]
    ELSE LET width == Round3(value)
         IN  [raised |-> "None",
              self |-> [self EXCEPT
                  !.content_cell_width = width,
                  !.content_segments =
                      [i \in DOMAIN self.content_segments |->
                          Segment_set_width(self.content_segments[i], width).self]]]

\* the settings setter
set_settings(self, value) ==
    [raised |-> "None", self |-> [self EXCEPT !.settings = value]]

\* a set_start_segment that builds a new cap on every call
set_start_segmentReset(self, width, text) ==
    IF width < 0 THEN [raised |-> "StartSegmentWidthError", self |-> self]
    ELSE IF width > 0
    THEN [raised |-> "None",
          self |-> [self EXCEPT !.start_segment =
              Some(StartSegment(width, text, NORMAL,
                                self.settings.default_text_color,
                                self.settings.default_background_color))]]
    ELSE [raised |-> "None", self |-> [self EXCEPT !.start_segment = None]]

\* a set_start_segment that removes the cap only when no text is given
set_start_segmentKeepNamed(self, width, text) ==
    IF width < 0 THEN [raised |-> "StartSegmentWidthError", self |-> self]
    ELSE IF width > 0 \/ (text # "" /\ ~IsNone(self.start_segment))
    THEN IF IsNone(self.start_segment)
         THEN [raised |-> "None",
               self |-> [self EXCEPT !.start_segment =
                   Some(StartSegment(width, text, NORMAL,
                                     self.settings.default_text_color,
                                     self.settings.default_background_color))]]
         ELSE [raised |-> "None",
               self |-> [self EXCEPT !.start_segment =
                   Some(Segment_set_text(
                       Segment_set_width(The(self.start_segment), width).self,
                       text))]]
    ELSE [raised |-> "None", self |-> [self EXCEPT !.start_segment = None]]

set_start_segment(self, width, text) ==
    IF width < 0 THEN [raised |-> "StartSegmentWidthError", self |-> self]
    ELSE IF width > 0
    THEN IF IsNone(self.start_segment)
         THEN [raised |-> "None",
               self |-> [self EXCEPT !.start_segment =
                   Some(StartSegment(width, text, NORMAL,
                                     self.settings.default_text_color,
                                     self.settings.default_background_color))]]
         ELSE [raised |-> "None",
               self |-> [self EXCEPT !.start_segment =
                   Some(Segment_set_text(
                       Segment_set_width(The(self.start_segment), width).self,
                       text))]]
    ELSE [raised |-> "None", self |-> [self EXCEPT !.start_segment = None]]

set_end_segment(self, width, text) ==
    IF width < 0 THEN [raised |-> "EndSegmentWidthError", self |-> self]
    ELSE IF width > 0
    THEN IF IsNone(self.end_segment)
         THEN [raised |-> "None",
               self |-> [self EXCEPT !.end_segment =
                   Some(EndSegment(width, text, NORMAL,
                                   self.settings.default_text_color,
                                   self.settings.default_background_color))]]
         ELSE [raised |-> "None",
               self |-> [self EXCEPT !.end_segment =
                   Some(Segment_set_text(
                       Segment_set_width(The(self.end_segment), width).self,
                       text))]]
    ELSE [raised |-> "None", self |-> [self EXCEPT !.end_segment = None]]

\* new cells numbered from 0
new_content_segmentsZeroBased(self, current_count, count) ==
    [j \in 1..(count - current_count) |->
        ContentSegment(ToString(current_count + j - 1),
                       self.content_cell_width, "", NORMAL,
                       self.settings.default_text_color,
                       self.settings.default_background_color)]

\* new cells left with the constructor's default colours
new_content_segmentsUncoloured(self, current_count, count) ==
    [j \in 1..(count - current_count) |->
        ContentSegment(ToString(current_count + j),
                       self.content_cell_width, "", NORMAL, BLACK, WHITE)]

\* the cells range(current_count, count) appends
new_content_segments(self, current_count, count) ==
    [j \in 1..(count - current_count) |->
        ContentSegment(ToString(current_count + j),
                       self.content_cell_width, "", NORMAL,
                       self.settings.default_text_color,
                       self.settings.default_background_color)]

\* a count setter that builds the whole list of cells anew
set_content_segment_countRebuild(self, count) ==
    IF count < 0 THEN [raised |-> "ContentSegmentCountError", self |-> self]
    ELSE IF count = Len(self.content_segments)
    THEN [raised |-> "None", self |-> self]
    ELSE [raised |-> "None",
          self |-> [self EXCEPT !.content_segments =
                        new_content_segments(self, 0, count)]]

\* a count setter that cuts the cells off the front of the list
set_content_segment_countFromFront(self, count) ==
    IF count < 0 THEN [raised |-> "ContentSegmentCountError", self |-> self]
    ELSE LET current_count == Len(self.content_segments)
         IN  IF count > current_count
             THEN [raised |-> "None",
                   self |-> [self EXCEPT !.content_segments =
                       @ \o new_content_segments(self, current_count, count)]]
             ELSE [raised |-> "None",
                   self |-> [self EXCEPT !.content_segments =
                       SubSeq(@, current_count - count + 1, current_count)]]

set_content_segment_count(self, count) ==
    IF count < 0 THEN [raised |-> "ContentSegmentCountError", self |-> self]
    ELSE LET current_count == Len(self.content_segments)
         IN  IF count > current_count
             THEN [raised |-> "None",
                   self |-> [self EXCEPT !.content_segments =
                       @ \o new_content_segments(self, current_count, count)]]
             ELSE IF count < current_count
             THEN [raised |-> "None",
                   self |-> [self EXCEPT !.content_segments = SubSeq(@, 1, count)]]
             ELSE [raised |-> "None", self |-> self]

get_all_segments(self) ==
    self.start_segment \o self.content_segments \o self.end_segment

get_total_width(self) ==
    (IF IsNone(self.start_segment) THEN 0 ELSE The(self.start_segment).width)
    + Len(self.content_segments) * self.content_cell_width
    + (IF IsNone(self.end_segment) THEN 0 ELSE The(self.end_segment).width)

\* an error message of validate: its wording and the numbers formatted in
Message(text, values) == [text |-> text, values |-> values]

\* errors.append(message) when the condition holds
AppendIf(condition, message) == IF condition THEN <<message>> ELSE <<>>

\* the height check of validate
validate_height(self) ==
    IF self.height < MIN_HEIGHT
    THEN <<Message("Strip height ({} mm) is below minimum ({} mm)",
                   <<self.height, MIN_HEIGHT>>)>>
    ELSE AppendIf(self.height > MAX_HEIGHT,
                  Message("Strip height ({} mm) exceeds maximum ({} mm)",
                          <<self.height, MAX_HEIGHT>>))

\* a total width check that lets a width of zero pass
validate_total_widthZeroPasses(total_width) ==
    IF total_width > MAX_WIDTH
    THEN <<Message("Total strip width ({} mm) exceeds maximum ({} mm)",
                   <<total_width, MAX_WIDTH>>)>>
    ELSE AppendIf(total_width < 0,
                  Message("Strip has zero or negative width", <<>>))

\* the total width check of validate
validate_total_width(total_width) ==
    IF total_width > MAX_WIDTH
    THEN <<Message("Total strip width ({} mm) exceeds maximum ({} mm)",
                   <<total_width, MAX_WIDTH>>)>>
    ELSE AppendIf(total_width <= 0,
                  Message("Strip has zero or negative width", <<>>))

\* the list validate returns
validate_errors(self) ==
    validate_height(self)
    \o AppendIf(self.content_cell_width <= 0,
                Message("Content cell width must be positive", <<>>))
    \o AppendIf(~IsNone(self.start_segment)
                    /\ The(self.start_segment).width < 0,
                Message("Start segment width cannot be negative", <<>>))
    \o AppendIf(~IsNone(self.end_segment)
                    /\ The(self.end_segment).width < 0,
                Message("End segment width cannot be negative", <<>>))
    \o validate_total_width(get_total_width(self))

\* a validate that puts a shared width it finds not positive back to 10.0
validateRepairing(self) ==
    [raised |-> "None",
     val |-> validate_errors(self),
     self |-> IF self.content_cell_width <= 0
              THEN [self EXCEPT !.content_cell_width = 10 * MM] ELSE self]

\* LabelStrip.validate
validate(self) ==
    [raised |-> "None", val |-> validate_errors(self), self |-> self]

LabelStrip_to_dict(self) ==
    [settings |-> StripSettings_to_dict(self.settings),
     height |-> self.height,
     content_cell_width |-> self.content_cell_width,
     segments |->
         [i \in 1..Len(get_all_segments(self)) |->
             Segment_to_dict(get_all_segments(self)[i])]]

\* one turn of the loop of from_dict: the segment built by
\* create_segment_from_dict is routed by its document's type; when the
\* factory raised, the load ends with what it raised
route_segment(acc, segment_type, segment) ==
    IF segment.raised # "None" THEN [acc EXCEPT !.raised = segment.raised]
    ELSE CASE segment_type = "start" ->
                  [acc EXCEPT !.start_segment = segment.val]
           [] segment_type = "end" ->
                  [acc EXCEPT !.end_segment = segment.val]
           [] segment_type = "content" ->
                  [acc EXCEPT !.content_segments = @ \o segment.val]
           [] OTHER -> acc

\* the loop of from_dict over the segment documents
RECURSIVE load_segments(_, _)
load_segments(segments_data, acc) ==
    IF segments_data = <<>> \/ acc.raised # "None" THEN acc
    ELSE load_segments(Tail(segments_data),
             route_segment(acc,
                           lower(Get(Head(segments_data), "type", "")),
                           create_segment_from_dict(Head(segments_data))))

\* from_dict, its parts evaluated: the constructed strip, the settings
\* and the segments loaded
from_dict_assemble(data, new, settings, loaded) ==
    IF settings.raised # "None"
    THEN [raised |-> settings.raised, self |-> new]
    ELSE IF loaded.raised # "None"
    THEN [raised |-> loaded.raised, self |-> new]
    ELSE [raised |-> "None",
          self |-> [settings |-> settings.val,
                    height |-> new.height,
                    start_segment |-> loaded.start_segment,
                    end_segment |-> loaded.end_segment,
                    content_segments |-> loaded.content_segments,
                    content_cell_width |->
                        Get(data, "content_cell_width", 10 * MM)]]

LabelStrip_from_dict(data) ==
    from_dict_assemble(data,
        LabelStrip(Get(data, "height", 5 * MM)),
        IF "settings" \in DOMAIN data
        THEN StripSettings_from_dict(data.settings)
        ELSE [raised |-> "None", val |-> StripSettings],
        load_segments(Get(data, "segments", <<>>),
                      [raised |-> "None",
                       start_segment |-> None,
                       end_segment |-> None,
                       content_segments |-> <<>>]))

----------------------------------------------------------------------------
(* utils/strip_renderer.py and utils/pdf_generator.py.  A rendering is the *)
(* list of drawing commands it issued, the artifact it produced (None when *)
(* there is none) and the value it returned.  The Qt renderer works in      *)
(* pixels, scale = numerator / denominator pixels per mm; the PDF generator *)
(* in mm, the unit it multiplies every length by.  What the libraries       *)
(* measure of a text is left in the command: a text command carries the     *)
(* cell it is centred in.                                                   *)

Rendering(commands, artifact, returned) ==
    [commands |-> commands, artifact |-> artifact, returned |-> returned]

\* int(x) of a quotient: truncation towards zero
Trunc(n, d) == IF n >= 0 THEN n \div d ELSE -((-n) \div d)

\* int(width * scale), width in ticks
Pixels(width, scale) == Trunc(width * scale.numerator, MM * scale.denominator)

\* QFont("Arial", size) with the flags _draw_segment sets
QtFont(segment, font_size, scale) ==
    [family |-> "Arial",
     size |-> Trunc(font_size * scale.numerator, 10 * scale.denominator),
     bold |-> segment.text_format = BOLD,
     italic |-> segment.text_format = ITALIC]

\* StripRenderer._draw_segment
Qt_draw_segment(self, x, y, width, height, segment, scale) ==
    <<[x |-> x, width |-> width, height |-> height, y |-> y, op |-> "fillRect",
       color |-> segment.background_color],
      [x |-> x, width |-> width, height |-> height, y |-> y, op |-> "drawRect",
       color |-> BLACK]>>
    \o (IF segment.text # ""
        THEN <<[x |-> x, text |-> segment.text, width |-> width, height |-> height,
                y |-> y, op |-> "drawText",
                color |-> segment.text_color,
                font |-> QtFont(segment, self.settings.default_font_size, scale)]>>
        ELSE <<>>)

\* the loop of _draw_strip_scaled over the content segments
RECURSIVE Qt_draw_content(_, _, _, _, _, _)
Qt_draw_content(self, segments, current_x, y, height, scale) ==
    IF segments = <<>> THEN [commands |-> <<>>, current_x |-> current_x]
    ELSE LET rest == Qt_draw_content(self, Tail(segments),
                                     current_x + Pixels(Head(segments).width, scale),
                                     y, height, scale)
         IN  [commands |->
                  Qt_draw_segment(self, current_x, y,
                                  Pixels(Head(segments).width, scale),
                                  height, Head(segments), scale)
                  \o rest.commands,
              current_x |-> rest.current_x]

\* the caps _draw_strip_scaled draws: present and wider than 0
Qt_drawn_cap(cap) ==
    IF ~IsNone(cap) /\ The(cap).width > 0 THEN cap ELSE <<>>

\* StripRenderer._draw_strip_scaled
draw_strip_scaled(self, x, y, height, scale) ==
    Qt_draw_content(self,
                    Qt_drawn_cap(self.start_segment) \o self.content_segments
                        \o Qt_drawn_cap(self.end_segment),
                    x, y, height, scale).commands

\* the scale factor a StripRenderer is made with, pixels per mm
scale_factor == [numerator |-> 10, denominator |-> 1]

\* dpi / 25.4 at the 300 dpi of an export
png_scale_factor == [numerator |-> 3000, denominator |-> 254]

\* the pixmap of the strip's size with the strip drawn on it
pixmap_of(self, scale) ==
    [width |-> Pixels(get_total_width(self), scale),
     height |-> Pixels(self.height, scale),
     kind |-> "pixmap"]

\* StripRenderer.render_to_pixmap
render_to_pixmap(self) ==
    IF get_total_width(self) = 0
    THEN Rendering(<<>>, Some([width |-> 100, height |-> 50, kind |-> "pixmap"]),
                   Some([width |-> 100, height |-> 50, kind |-> "pixmap"]))
    ELSE Rendering(draw_strip_scaled(self, 0, 0,
                                     Pixels(self.height, scale_factor), scale_factor),
                   Some(pixmap_of(self, scale_factor)),
                   Some(pixmap_of(self, scale_factor)))

\* StripRenderer.save_to_png: QPixmap.save writes the file unless the
\* pixmap is null
save_to_png(self) ==
    IF get_total_width(self) = 0
    THEN Rendering(<<>>, None, FALSE)
    ELSE IF Pixels(get_total_width(self), png_scale_factor) > 0
            /\ Pixels(self.height, png_scale_factor) > 0
    THEN Rendering(draw_strip_scaled(self, 0, 0,
                                     Pixels(self.height, png_scale_factor),
                                     png_scale_factor),
                   Some([pixmap_of(self, png_scale_factor) EXCEPT !.kind = "png"]),
                   TRUE)
    ELSE Rendering(<<>>, None, FALSE)

\* the font PDFGenerator._draw_segment selects
PdfFont(segment, font_size) ==
    [size |-> font_size,
     name |-> CASE segment.text_format = BOLD -> "Helvetica-Bold"
                [] segment.text_format = ITALIC -> "Helvetica-Oblique"
                [] OTHER -> "Helvetica"]

\* PDFGenerator._draw_segment
Pdf_draw_segment(self, x, y, width, height, segment) ==
    <<[x |-> x, width |-> width, height |-> height, y |-> y, op |-> "rect",
       color |-> segment.background_color, fill |-> 1, stroke |-> 1],
      [x |-> x, width |-> width, height |-> height, y |-> y, op |-> "rect",
       color |-> BLACK, fill |-> 0, stroke |-> 1]>>
    \o (IF segment.text # ""
        THEN <<[x |-> x, text |-> segment.text, width |-> width, height |-> height,
                y |-> y, op |-> "drawString",
                color |-> segment.text_color,
                font |-> PdfFont(segment, self.settings.default_font_size)]>>
        ELSE <<>>)

\* length * mm, counted in half ticks: the strip's corner lies half the
\* strip from its centre
Points(length) == 2 * length

\* the loop of _draw_label_strip over the segments
RECURSIVE Pdf_draw_segments(_, _, _, _, _)
Pdf_draw_segments(self, segments, current_x, y, height) ==
    IF segments = <<>> THEN <<>>
    ELSE Pdf_draw_segment(self, current_x, y, Points(Head(segments).width),
                          height, Head(segments))
         \o Pdf_draw_segments(self, Tail(segments),
                              current_x + Points(Head(segments).width), y, height)

\* PDFGenerator._draw_label_strip
draw_label_strip(self, x, y, height) ==
    Pdf_draw_segments(self, get_all_segments(self), x, y, height)

\* the page generate_pdf draws once the rotation is known
generate_pdf_page(self, rotation_angle) ==
    Rendering(
        <<[op |-> "saveState"],
          [op |-> "translate", to |-> "page center"],
          [op |-> "rotate", angle |-> rotation_angle]>>
        \o draw_label_strip(self, -(Points(get_total_width(self)) \div 2),
                            -(Points(self.height) \div 2), Points(self.height))
        \o <<[op |-> "restoreState"], [op |-> "save"]>>,
        Some([paper_size |-> self.settings.paper_size, width |-> get_total_width(self),
              height |-> self.height, kind |-> "pdf"]),
        TRUE)

\* PDFGenerator.generate_pdf: the rotation of the settings is used when
\* none is given, and reading it fails on settings that were never given one
generate_pdf(self, rotation_angle) ==
    IF IsNone(rotation_angle) /\ IsNone(self.settings.rotation_angle)
    THEN Rendering(<<>>, None, FALSE)
    ELSE generate_pdf_page(self,
             IF IsNone(rotation_angle) THEN The(self.settings.rotation_angle)
             ELSE The(rotation_angle))

\* PDFGenerator.PAPER_SIZES: width and height of the page, in the unit of
\* the strip (reportlab gives A4 as 210 mm by 297 mm, LETTER as 8.5 inch
\* by 11 inch, an inch being 25.4 mm)
PAPER_SIZES ==
    [paper_size \in PaperSize |->
        CASE paper_size = "A4" -> <<210 * MM, 297 * MM>>
          [] paper_size = "A3" -> <<297 * MM, 420 * MM>>
          [] paper_size = "A2" -> <<420 * MM, 594 * MM>>
          [] paper_size = "A1" -> <<594 * MM, 841 * MM>>
          [] paper_size = "A0" -> <<841 * MM, 1189 * MM>>
          [] paper_size = "Letter" -> <<(2159 * MM) \div 10, (2794 * MM) \div 10>>
          [] paper_size = "Legal" -> <<(2159 * MM) \div 10, (3556 * MM) \div 10>>
          [] OTHER -> <<(2794 * MM) \div 10, (4318 * MM) \div 10>>]

\* the two checks and the fallback of calculate_required_rotation, on the
\* strip and the space the margins leave
required_rotation_of(strip_width, strip_height, available_width, available_height) ==
    IF strip_width <= available_width /\ strip_height <= available_height
    THEN None
    ELSE IF strip_height <= available_width /\ strip_width <= available_height
    THEN Some(90)
    ELSE IF strip_width > strip_height /\ strip_width > available_width
    THEN Some(90)
    ELSE None

\* PDFGenerator.calculate_required_rotation
calculate_required_rotation(self) ==
    required_rotation_of(
        get_total_width(self), self.height,
        PAPER_SIZES[self.settings.paper_size][1]
            - self.settings.page_margins.left - self.settings.page_margins.right,
        PAPER_SIZES[self.settings.paper_size][2]
            - self.settings.page_margins.top - self.settings.page_margins.bottom)

\* ---- views/designer_tab.py: the segment table ----
\* StandardColor: the hex string of each standard colour
StandardColor ==
    [BLACK |-> <<"#", "0", "0", "0", "0", "0", "0">>,
     WHITE |-> <<"#", "F", "F", "F", "F", "F", "F">>,
     RED |-> <<"#", "F", "F", "0", "0", "0", "0">>,
     YELLOW |-> <<"#", "F", "F", "F", "F", "0", "0">>,
     GREEN |-> <<"#", "0", "0", "F", "F", "0", "0">>,
     BLUE |-> <<"#", "0", "0", "0", "0", "F", "F">>,
     ORANGE |-> <<"#", "F", "F", "A", "5", "0", "0">>,
     PURPLE |-> <<"#", "8", "0", "0", "0", "8", "0">>]

\* Color.from_standard
from_standard(standard_color) == from_hex(StandardColor[standard_color]).val

\* SegmentTable.add_segment: the row of a new segment shows the text it
\* is given, the first format of the combo box, Black on White and a
\* width of 10.0
add_segment(segment_id, text) ==
    [text_color |-> "BLACK", text |-> text, width |-> 10 * MM,
     text_format |-> NORMAL, id |-> segment_id, bg_color |-> "WHITE"]

\* DesignerTab.update_table_from_strip: the rows of the table after
\* clear_segments and one add_segment for each segment
update_table_from_strip(self) ==
    (IF ~IsNone(self.start_segment)
     THEN <<add_segment("L Start", The(self.start_segment).text)>> ELSE <<>>)
    \o [i \in 1..Len(self.content_segments) |->
           add_segment(self.content_segments[i].id, self.content_segments[i].text)]
    \o (IF ~IsNone(self.end_segment)
        THEN <<add_segment("L End", The(self.end_segment).text)>> ELSE <<>>)

\* SegmentTable.get_segment_data: None when the table has no such row
get_segment_data(table, row) ==
    IF row \in 1..Len(table) THEN Some(table[row]) ELSE None

\* the five assignments update_strip_from_table makes to a segment from
\* the data of its row
segment_from_row(segment, data) ==
    IF IsNone(data) THEN segment
    ELSE Segment_set_width(
             Segment_set_background_color(
                 Segment_set_text_color(
                     Segment_set_text_format(
                         Segment_set_text(segment, The(data).text),
                         The(data).text_format),
                     from_standard(The(data).text_color)),
                 from_standard(The(data).bg_color)),
             The(data).width).self

\* the start cap made to show what the end cap shows
synchronized_start(start, end) ==
    [start EXCEPT !.text = end.text, !.text_format = end.text_format,
                  !.text_color = end.text_color,
                  !.background_color = end.background_color]

\* the caps and cells of update_strip_from_table, start_row_offset the
\* number of rows before the first content row
strip_from_rows(self, table, start_row_offset) ==
    [self EXCEPT
        !.start_segment =
            IF IsNone(@) THEN @
            ELSE IF ~IsNone(self.end_segment)
                    /\ ~IsNone(get_segment_data(table,
                           start_row_offset + Len(self.content_segments) + 1))
            THEN Some(synchronized_start(
                     segment_from_row(The(@), get_segment_data(table, 1)),
                     segment_from_row(The(self.end_segment),
                         get_segment_data(table,
                             start_row_offset + Len(self.content_segments) + 1))))
            ELSE Some(segment_from_row(The(@), get_segment_data(table, 1))),
        !.content_segments =
            [i \in 1..Len(@) |->
                segment_from_row(@[i], get_segment_data(table, start_row_offset + i))],
        !.end_segment =
            IF IsNone(@) THEN @
            ELSE Some(segment_from_row(The(@),
                     get_segment_data(table,
                         start_row_offset + Len(self.content_segments) + 1)))]

\* DesignerTab.update_strip_from_table
update_strip_from_table(self, table) ==
    strip_from_rows(self, table, IF IsNone(self.start_segment) THEN 0 ELSE 1)

\* the table with the text of one row typed over
with_row_text(table, row, text) == [table EXCEPT ![row].text = text]

----------------------------------------------------------------------------
(* The calls.  A call that raises leaves the object as the code left it    *)
(* when the exception was thrown; a classmethod that raises returns no     *)
(* object, and the caller keeps the one it had.                            *)

\* ---- utils/project_manager.py ----
\* A project file is absent, or holds text json.load refuses (parsed is
\* None), or holds a JSON value.  A JSON object is the dict of its
\* members, a number or an array a tagged record; a string member whose
\* letters the code examines is the sequence of its characters.
NoFile == [exists |-> FALSE]
FileWith(parsed) == [exists |-> TRUE, parsed |-> parsed]
JsonObject(members) == [members |-> members, json |-> "object"]
JsonArray == [json |-> "array"]
JsonNumber(n) == [json |-> "number", num |-> n]
JsonString(chars) == [json |-> "string", str |-> chars]
JsonNull == [json |-> "null"]

\* str.startswith
startswith(chars, prefix) ==
    /\ Len(chars) >= Len(prefix)
    /\ SubSeq(chars, 1, Len(prefix)) = prefix

\* ProjectManager._validate_project_data: `field not in data` raises
\* TypeError on a number, is true of every field on an empty array;
\* version.startswith raises AttributeError when version is no string
_validate_project_data(data) ==
    IF data.json \in {"number", "null"}
    THEN [raised |-> "TypeError", val |-> FALSE]
    ELSE IF data.json = "array"
    THEN [raised |-> "None", val |-> FALSE]
    ELSE IF \E field \in {"version", "application", "label_strip"} :
                field \notin DOMAIN data.members
    THEN [raised |-> "None", val |-> FALSE]
    ELSE IF data.members.application # "Jackfield Labeler"
    THEN [raised |-> "None", val |-> FALSE]
    ELSE IF data.members.version.json # "string"
    THEN [raised |-> "AttributeError", val |-> FALSE]
    ELSE [raised |-> "None",
          val |-> startswith(data.members.version.str, <<"1", ".">>)]

\* LabelStrip.from_dict(label_strip_data) as load_project calls it: a
\* label_strip member that is null has no get
from_project_data(label_strip_data) ==
    IF label_strip_data = JsonNull
    THEN [raised |-> "AttributeError", val |-> None]
    ELSE [raised |-> LabelStrip_from_dict(label_strip_data).raised,
          val |-> Some(LabelStrip_from_dict(label_strip_data).self)]

\* the body of the try statement of ProjectManager.load_project
load_project_try(file) ==
    IF ~file.exists
    THEN [raised |-> "None", val |-> None]
    ELSE IF IsNone(file.parsed)
    THEN [raised |-> "JSONDecodeError", val |-> None]
    ELSE IF _validate_project_data(The(file.parsed)).raised # "None"
    THEN [raised |-> _validate_project_data(The(file.parsed)).raised,
          val |-> None]
    ELSE IF ~_validate_project_data(The(file.parsed)).val
    THEN [raised |-> "None", val |-> None]
    ELSE from_project_data(The(file.parsed).members.label_strip)

\* a load_project with no except clause but the one for JSONDecodeError
load_projectUncaught(file) ==
    IF load_project_try(file).raised = "JSONDecodeError"
    THEN [raised |-> "None", val |-> None]
    ELSE [raised |-> load_project_try(file).raised,
          val |-> IF load_project_try(file).raised = "None"
                  THEN load_project_try(file).val ELSE None]

\* ProjectManager.load_project: both except clauses return None
load_project(file) ==
    IF load_project_try(file).raised = "None"
    THEN load_project_try(file)
    ELSE [raised |-> "None", val |-> None]

\* A path is the sequence of its characters, a file system the function
\* from the paths of its files to what they hold; its directories are
\* made on demand.
PROJECT_EXTENSION == <<".", "j", "l", "p">>

\* str.lower on the characters of a path
lower_char(c) ==
    CASE c = "J" -> "j" [] c = "L" -> "l" [] c = "P" -> "p" [] OTHER -> c
lower_chars(chars) == [i \in 1..Len(chars) |-> lower_char(chars[i])]

\* str.endswith
endswith(chars, suffix) ==
    /\ Len(chars) >= Len(suffix)
    /\ SubSeq(chars, Len(chars) - Len(suffix) + 1, Len(chars)) = suffix

\* os.path.dirname: what stands before the last "/", "" when there is none
RECURSIVE dirname(_)
dirname(chars) ==
    IF chars = <<>> THEN <<>>
    ELSE IF chars[Len(chars)] = "/"
    THEN IF Len(chars) = 1 THEN chars ELSE SubSeq(chars, 1, Len(chars) - 1)
    ELSE dirname(SubSeq(chars, 1, Len(chars) - 1))

\* the path save_project writes to
project_path(file_path) ==
    IF ~endswith(lower_chars(file_path), PROJECT_EXTENSION)
    THEN file_path \o PROJECT_EXTENSION
    ELSE file_path

\* the project_data of save_project; json.dump followed by json.load
\* gives back the numbers, strings, lists and objects that were dumped
project_data_of(label_strip) ==
    JsonObject([application |-> "Jackfield Labeler",
                version |-> JsonString(<<"1", ".", "0">>),
                label_strip |-> LabelStrip_to_dict(label_strip),
                metadata |-> [created_by |-> "Jackfield Labeler",
                              file_format_version |-> "1.0"]])

\* ProjectManager.save_project on the file system fs: os.makedirs("")
\* raises FileNotFoundError, which the except clause turns into False
save_project(fs, label_strip, file_path) ==
    IF dirname(project_path(file_path)) = <<>>
    THEN [returned |-> FALSE, fs |-> fs]
    ELSE [returned |-> TRUE,
          fs |-> [q \in DOMAIN fs \cup {project_path(file_path)} |->
                     IF q = project_path(file_path)
                     THEN FileWith(Some(project_data_of(label_strip)))
                     ELSE fs[q]]]

\* ProjectManager.load_project on the file system fs
load_project_at(fs, file_path) ==
    load_project(IF file_path \in DOMAIN fs THEN fs[file_path] ELSE NoFile)

\* save_project(label_strip, file_path) on an empty file system followed
\* by load_project(file_path)
save_then_load(label_strip, file_path) ==
    [loaded |-> load_project_at(save_project(<<>>, label_strip, file_path).fs,
                                file_path).val,
     saved |-> save_project(<<>>, label_strip, file_path).returned,
     written |-> DOMAIN save_project(<<>>, label_strip, file_path).fs]

CallRecord(op, arg, raised) == [raised |-> raised, op |-> op, arg |-> arg]

\* whether the last call cut cells off the end of the content list
LastCallShrank ==
    /\ last.op = "set_content_segment_count"
    /\ last.raised = "None"
    /\ last.arg[1] < Len(pre.content_segments)

Call(op, arg, result) ==
    /\ strip' = result.self
    /\ pre' = strip
    /\ last' = CallRecord(op, arg, result.raised)
    /\ discarded' =
          IF op = "set_content_segment_count" /\ result.raised = "None"
          THEN IF arg[1] < Len(strip.content_segments)
               THEN SubSeq(strip.content_segments, arg[1] + 1,
                           Len(strip.content_segments))
               ELSE IF LastCallShrank /\ arg[1] > Len(strip.content_segments)
               THEN discarded
               ELSE <<>>
          ELSE <<>>
    /\ output' = None
    /\ UNCHANGED document

Init ==
    /\ strip = LabelStrip(5 * MM)
    /\ pre = strip
    /\ last = CallRecord("LabelStrip", <<5 * MM>>, "None")
    /\ discarded = <<>>
    /\ document = None
    /\ output = None

\* strip = r when the call returned r, the strip kept when it raised
Returned(r, kept) ==
    [raised |-> r.raised,
     self |-> IF r.raised = "None" THEN r.self ELSE kept]

\* strip = LabelStrip(height)
CallLabelStrip(Heights) ==
    \E height \in Heights :
        Call("LabelStrip", <<height>>,
             [raised |-> "None", self |-> LabelStrip(height)])

\* strip = LabelStrip.from_dict(document): when it raises no strip is
\* returned and the caller keeps the one it had
CallFromDict ==
    /\ ~IsNone(document)
    /\ Call("from_dict", <<>>,
            Returned(LabelStrip_from_dict(The(document)), strip))

\* strip = LabelStrip.from_dict(strip.to_dict())
CallRoundTrip ==
    Call("from_dict(to_dict)", <<>>,
         Returned(LabelStrip_from_dict(LabelStrip_to_dict(strip)), strip))

\* strip.set_start_segment(width, text)
CallSetStartSegment(Widths, Texts) ==
    \E width \in Widths, text \in Texts :
        Call("set_start_segment", <<width, text>>,
             set_start_segment(strip, width, text))

\* strip.set_end_segment(width, text)
CallSetEndSegment(Widths, Texts) ==
    \E width \in Widths, text \in Texts :
        Call("set_end_segment", <<width, text>>,
             set_end_segment(strip, width, text))

\* strip.set_content_segment_count(count)
CallSetContentSegmentCount(Counts) ==
    \E count \in Counts :
        Call("set_content_segment_count", <<count>>,
             set_content_segment_count(strip, count))

\* strip.content_cell_width = value
CallSetContentCellWidth(Widths) ==
    \E value \in Widths :
        Call("content_cell_width", <<value>>,
             set_content_cell_width(strip, value))

\* strip.height = value
CallSetHeight(Heights) ==
    \E value \in Heights :
        Call("height", <<value>>, set_height(strip, value))

\* strip.settings = the settings the settings tab applied
CallSetSettings(Choices) ==
    \E ui \in Choices :
        Call("settings", <<ui>>,
             set_settings(strip, apply_settings(strip.settings, ui)))

\* strip.validate()
CallValidate ==
    Call("validate", <<>>, Returned(validate(strip), strip))

\* a call that does not touch the strip and returns a value
Returns(op, arg, raised, value) ==
    /\ strip' = strip
    /\ pre' = strip
    /\ last' = CallRecord(op, arg, raised)
    /\ discarded' = <<>>
    /\ output' = Some(value)
    /\ UNCHANGED document

\* the value a call gave, None when it raised
ValueOf(r) == IF r.raised = "None" THEN Some(r.val) ELSE None

\* Color.from_hex(hex_color)
CallFromHex(Inputs) ==
    \E hex_color \in Inputs :
        Returns("Color.from_hex", <<hex_color>>, from_hex(hex_color).raised,
                ValueOf(from_hex(hex_color)))

\* to_hex of a colour and from_hex of the string it gave
to_hex_and_back(c) ==
    [hex |-> to_hex(c), back |-> ValueOf(from_hex(to_hex(c)))]

\* Color(r, g, b).to_hex() and Color.from_hex of it
CallToHex(Channels) ==
    \E r \in Channels, g \in Channels, b \in Channels :
        Returns("Color.to_hex", <<Color(r, g, b)>>, "None",
                to_hex_and_back(Color(r, g, b)))

\* to_hex of a colour from_hex gave
to_hex_of(r) ==
    [raised |-> r.raised,
     val |-> IF r.raised = "None" THEN to_hex(r.val) ELSE <<>>]

\* Color.from_hex(hex_color).to_hex()
CallFromHexToHex(Inputs) ==
    \E hex_color \in Inputs :
        Returns("Color.from_hex.to_hex", <<hex_color>>,
                from_hex(hex_color).raised,
                ValueOf(to_hex_of(from_hex(hex_color))))

\* a call of a renderer made for the strip: the strip is only read
Render(op, arg, rendering) ==
    /\ strip' = strip
    /\ pre' = strip
    /\ last' = CallRecord(op, arg, "None")
    /\ discarded' = <<>>
    /\ output' = Some(rendering)
    /\ UNCHANGED document

\* StripRenderer(strip).render_to_pixmap()
CallRenderToPixmap ==
    Render("render_to_pixmap", <<>>, render_to_pixmap(strip))

\* StripRenderer(strip).save_to_png(output_path, dpi=300)
CallSaveToPng ==
    Render("save_to_png", <<>>, save_to_png(strip))

\* PDFGenerator(strip).generate_pdf(output_path, rotation_angle)
CallGeneratePdf(Rotations) ==
    \E rotation_angle \in Rotations :
        Render("generate_pdf", <<rotation_angle>>,
               generate_pdf(strip, rotation_angle))

\* PDFGenerator(strip).calculate_required_rotation()
CallCalculateRequiredRotation ==
    Returns("calculate_required_rotation", <<>>, "None",
            calculate_required_rotation(strip))

\* the segments a caller can reach through strip.start_segment,
\* strip.end_segment and strip.content_segments[index - 1]
Targets(self, Kinds) ==
    {t \in [kind : Kinds, index : 0..Len(self.content_segments)] :
        CASE t.kind = "start" -> t.index = 0 /\ ~IsNone(self.start_segment)
          [] t.kind = "end" -> t.index = 0 /\ ~IsNone(self.end_segment)
          [] OTHER -> t.index >= 1}

segment_at(self, t) ==
    CASE t.kind = "start" -> The(self.start_segment)
      [] t.kind = "end" -> The(self.end_segment)
      [] OTHER -> self.content_segments[t.index]

\* the strip with the segment object at t in the state seg
with_segment(self, t, seg) ==
    CASE t.kind = "start" -> [self EXCEPT !.start_segment = Some(seg)]
      [] t.kind = "end" -> [self EXCEPT !.end_segment = Some(seg)]
      [] OTHER -> [self EXCEPT !.content_segments[t.index] = seg]

\* segment.width = value, on a segment of the strip
CallSegmentSetWidth(Kinds, Widths) ==
    \E t \in Targets(strip, Kinds), value \in Widths :
        LET r == Segment_set_width(segment_at(strip, t), value)
        IN  Call("segment.width", <<t, value>>,
                 [raised |-> r.raised, self |-> with_segment(strip, t, r.self)])

\* segment.text = value
CallSegmentSetText(Kinds, Texts) ==
    \E t \in Targets(strip, Kinds), value \in Texts :
        Call("segment.text", <<t, value>>,
             [raised |-> "None",
              self |-> with_segment(strip, t,
                           Segment_set_text(segment_at(strip, t), value))])

\* segment.text_format = value
CallSegmentSetTextFormat(Kinds, Formats) ==
    \E t \in Targets(strip, Kinds), value \in Formats :
        Call("segment.text_format", <<t, value>>,
             [raised |-> "None",
              self |-> with_segment(strip, t,
                           Segment_set_text_format(segment_at(strip, t), value))])

----------------------------------------------------------------------------
(* Spec: the geometry of the strip.  Every width and count the calls take  *)
(* is tried, a width finer than 0.001 mm among them; texts, formats and    *)
(* colours stay as constructed.                                            *)

CapWidths == {-MM, 0, 1, 20 * MM, 15 * MM + 1}
CellWidths == {-MM, 0, 1, 15 * MM + 1}
SegmentWidths == {-MM, 0, 7 * MM + TicksPerMilli - 1}
Counts == -1..MaxCells

Next ==
    \/ CallSetStartSegment(CapWidths, {""})
    \/ CallSetEndSegment(CapWidths, {""})
    \/ CallSetContentSegmentCount(Counts)
    \/ CallSetContentCellWidth(CellWidths)
    \/ CallSegmentSetWidth({"start", "content", "end"}, SegmentWidths)

Spec == Init /\ [][Next]_vars

----------------------------------------------------------------------------
(* SpecCaps: the caps and their attributes.  A cap is created, updated and *)
(* removed while its text and format are edited and the default colours    *)
(* change under it.                                                        *)

\* what the settings tab's widgets hold when the user has changed them all
ChangedUi ==
    [paper_size |-> "A3",
     page_margins |-> PageMargins(5 * MM, 6 * MM, 7 * MM, 8 * MM),
     default_font_name |-> "Courier",
     default_font_size |-> 12,
     default_text_color |-> RED,
     default_background_color |-> YELLOW,
     rotation_angle |-> 90]

NextCaps ==
    \/ CallSetStartSegment({-MM, 0, 20 * MM, 15 * MM + 1}, {"", "S"})
    \/ CallSetEndSegment({-MM, 0, 20 * MM, 15 * MM + 1}, {"", "E"})
    \/ CallSegmentSetTextFormat({"start", "end"}, {BOLD})
    \/ CallSetSettings({ChangedUi})
    \/ CallSetContentSegmentCount({0, MaxCells})
    \/ CallSetHeight({8 * MM})

SpecCaps == Init /\ [][NextCaps]_vars

\* cap widths at and below the precision of 0.001 mm
FineCapWidths == {0, 1, 20 * MM, 15 * MM + 1}

NextFine ==
    \/ CallSetStartSegment(FineCapWidths, {"", "S"})
    \/ CallSetEndSegment(FineCapWidths, {"", "E"})

SpecFine == Init /\ [][NextFine]_vars

----------------------------------------------------------------------------
(* SpecCells: the content cells and their attributes.  Cells are added,    *)
(* cut off and edited one by one while the shared width and the default    *)
(* colours change.                                                         *)

NextCells ==
    \/ CallSetContentSegmentCount(Counts)
    \/ CallSetContentCellWidth({-MM, 0, 15 * MM + 1})
    \/ CallSegmentSetWidth({"content"}, {7 * MM + TicksPerMilli - 1})
    \/ CallSegmentSetText({"content"}, {"A"})
    \/ CallSegmentSetTextFormat({"content"}, {BOLD})
    \/ CallSetSettings({ChangedUi})
    \/ CallSetStartSegment({20 * MM}, {"S"})

SpecCells == Init /\ [][NextCells]_vars

----------------------------------------------------------------------------
(* SpecRoundTrip: serialization.  A strip with both caps and one content   *)
(* cell has every attribute and setting edited, and is written to a        *)
(* document and read back.                                                 *)

NextRoundTrip ==
    \/ CallSetHeight({8 * MM})
    \/ CallSetContentCellWidth({12 * MM + 1})
    \/ CallSetContentSegmentCount({1})
    \/ CallSetStartSegment({20 * MM}, {"S"})
    \/ CallSetEndSegment({15 * MM + 1}, {"E"})
    \/ CallSegmentSetWidth({"content"}, {7 * MM})
    \/ CallSegmentSetText({"content"}, {"A"})
    \/ CallSegmentSetTextFormat({"start", "content"}, {BOLD_ITALIC})
    \/ CallSetSettings({ChangedUi})
    \/ CallRoundTrip

SpecRoundTrip == Init /\ [][NextRoundTrip]_vars

----------------------------------------------------------------------------
(* SpecDocument: construction and loading.  A strip document, well formed  *)
(* or not, is given; the strip is constructed, its height is written and   *)
(* the document is loaded.                                                 *)

\* most segment documents a strip document holds
MaxDocumentSegments == 2

\* a dict with the key k when the optional value o is present
Key(k, o) == IF IsNone(o) THEN <<>> ELSE (k :> The(o))

SegmentDocuments ==
    {[text_color |-> to_hex(RED), background_color |-> to_hex(YELLOW), type |-> "start", text |-> "S",
      width |-> 20 * MM,
      text_format |-> "BOLD", id |-> "L_START"],
     [type |-> "START", width |-> -5 * MM],
     [text_color |-> to_hex(BLACK), background_color |-> to_hex(WHITE), type |-> "content", text |-> "A",
      width |-> 10 * MM,
      text_format |-> "bold_italic", id |-> "1"],
     [type |-> "content", width |-> -MM, text_format |-> "FANCY", id |-> "7"],
     [text_color |-> to_hex(BLACK), background_color |-> to_hex(WHITE), type |-> "end", text |-> "E",
      width |-> 15 * MM + 1,
      text_format |-> "ITALIC", id |-> "L_END"],
     [type |-> "middle", width |-> 5 * MM],
     [text |-> "x", width |-> 5 * MM],
     [text_color |-> <<"#", "z", "z", "0", "0", "0", "0">>, type |-> "end", width |-> 5 * MM]}

SegmentDocumentLists ==
    UNION {[1..n -> SegmentDocuments] : n \in 0..MaxDocumentSegments}

DocumentHeights == {None, Some(MM), Some(8 * MM), Some(20 * MM)}
DocumentCellWidths == {None, Some(-MM), Some(12 * MM + 1)}
DocumentSettings == {None, Some(StripSettings_to_dict(apply_settings(StripSettings, ChangedUi)))}

Documents ==
    {Key("height", h) @@ Key("content_cell_width", w)
         @@ Key("segments", Some(segs)) @@ Key("settings", st) :
        h \in DocumentHeights, w \in DocumentCellWidths,
        segs \in SegmentDocumentLists, st \in DocumentSettings}

InitDocument ==
    /\ strip = LabelStrip(5 * MM)
    /\ pre = strip
    /\ last = CallRecord("LabelStrip", <<5 * MM>>, "None")
    /\ discarded = <<>>
    /\ document \in {Some(d) : d \in Documents}
    /\ output = None

NextDocument ==
    \/ CallLabelStrip({MM, 8 * MM, 20 * MM})
    \/ CallSetHeight({MM, 8 * MM, 20 * MM})
    \/ CallFromDict

SpecDocument == InitDocument /\ [][NextDocument]_vars

----------------------------------------------------------------------------
(* SpecValidate: validation.  Strips are built with widths from nothing   *)
(* to more than MAX_WIDTH, by the calls and by loading a document, and     *)
(* validated.                                                              *)

ValidateDocuments ==
    {[height |-> 20 * MM, content_cell_width |-> -MM,
      segments |-> <<[type |-> "content", width |-> 10 * MM, id |-> "1"]>>],
     [segments |-> <<[type |-> "start", width |-> -5 * MM],
                     [type |-> "content", width |-> 600 * MM, id |-> "1"],
                     [type |-> "end", width |-> 20 * MM]>>],
     [segments |-> <<[type |-> "content", width |-> -MM, id |-> "1"]>>]}

InitValidate ==
    /\ strip = LabelStrip(5 * MM)
    /\ pre = strip
    /\ last = CallRecord("LabelStrip", <<5 * MM>>, "None")
    /\ discarded = <<>>
    /\ document \in {Some(d) : d \in ValidateDocuments}
    /\ output = None

NextValidate ==
    \/ CallSetContentSegmentCount({0, 1, MaxCells})
    \/ CallSetContentCellWidth({1, 300 * MM})
    \/ CallSetStartSegment({0, 20 * MM}, {""})
    \/ CallSegmentSetWidth({"content"}, {0, 600 * MM})
    \/ CallFromDict
    \/ CallValidate

SpecValidate == InitValidate /\ [][NextValidate]_vars

----------------------------------------------------------------------------
(* SpecColor: colours and their hex strings.  from_hex is given strings    *)
(* of five to eight characters built from pairs of digits of either case,  *)
(* signs, blanks and other characters, under no, one or two "#"; to_hex is *)
(* given colours with channels across [0, 255].                            *)

HexPairs ==
    {<<"0", "a">>, <<"F", "F">>, <<"+", "f">>, <<" ", "9">>, <<"g", "0">>}

HexInputs ==
    {prefix \o p1 \o p2 \o p3 \o suffix :
        prefix \in {<<>>, <<"#">>, <<"#", "#">>},
        p1 \in HexPairs, p2 \in HexPairs, p3 \in HexPairs,
        suffix \in {<<>>, <<"0">>}}
    \cup {<<>>, <<"#">>, <<"f", "f", "0", "0">>, <<"#", "f", "f", "0", "0", "0">>,
          <<"i", "n", "v", "a", "l", "i", "d">>}

ColorChannels == {0, 9, 10, 15, 16, 171, 255}

NextColor ==
    \/ CallFromHex(HexInputs)
    \/ CallToHex(ColorChannels)
    \/ CallFromHexToHex(HexInputs)

SpecColor == Init /\ [][NextColor]_vars

\* Color(r, g, b): the dataclass stores the three arguments as given
CallColor(Channels) ==
    \E r \in Channels, g \in Channels, b \in Channels :
        Returns("Color", <<r, g, b>>, "None", Some(Color(r, g, b)))

SignedHexPairs ==
    {<<"0", "0">>, <<"f", "f">>, <<"-", "f">>, <<"-", "0">>, <<"+", "1">>}

SignedHexInputs ==
    {prefix \o p1 \o p2 \o p3 :
        prefix \in {<<>>, <<"#">>},
        p1 \in SignedHexPairs, p2 \in SignedHexPairs, p3 \in SignedHexPairs}

AnyChannels == {-1, 0, 255, 256}

NextChannels ==
    \/ CallColor(AnyChannels)
    \/ CallFromHex(SignedHexInputs)

SpecChannels == Init /\ [][NextChannels]_vars

----------------------------------------------------------------------------
(* SpecRender: rendering.  Strips with and without caps, cells and texts,  *)
(* some of total width 0, are rendered to a pixmap, a PNG file and a PDF   *)
(* file.                                                                   *)

NextRender ==
    \/ CallSetContentSegmentCount({0, 1})
    \/ CallSetContentCellWidth({1})
    \/ CallSetStartSegment({0, 20 * MM}, {"S"})
    \/ CallSegmentSetText({"content"}, {"A"})
    \/ CallSegmentSetTextFormat({"content"}, {BOLD})
    \/ CallSetSettings({ChangedUi})
    \/ CallRenderToPixmap
    \/ CallSaveToPng
    \/ CallGeneratePdf({None, Some(90)})

SpecRender == Init /\ [][NextRender]_vars

\* settings whose margins leave a narrow column of an A4 page
NarrowUi ==
    [paper_size |-> "A4",
     page_margins |-> PageMargins(10 * MM, 100 * MM, 10 * MM, 100 * MM),
     default_font_name |-> "Arial",
     default_font_size |-> 8,
     default_text_color |-> BLACK,
     default_background_color |-> WHITE,
     rotation_angle |-> 0]

NextRotation ==
    \/ CallSetContentSegmentCount({0, 1, MaxCells})
    \/ CallSetContentCellWidth({100 * MM, 130 * MM, 150 * MM})
    \/ CallSetHeight({5 * MM, 12 * MM})
    \/ CallSetSettings({ChangedUi, NarrowUi})
    \/ CallCalculateRequiredRotation

SpecRotation == Init /\ [][NextRotation]_vars

\* one content cell, with and without text, in each format, is rendered
NextFonts ==
    \/ CallSetContentSegmentCount({0, 1})
    \/ CallSegmentSetText({"content"}, {"", "A"})
    \/ CallSegmentSetTextFormat({"content"}, TextFormat)
    \/ CallSetSettings({ChangedUi})
    \/ CallRenderToPixmap
    \/ CallSaveToPng
    \/ CallGeneratePdf({Some(0)})

SpecFonts == Init /\ [][NextFonts]_vars

\* strips of cells 10.05 mm or 10 mm wide, with and without a start cap,
\* are rendered
NextLayout ==
    \/ CallSetContentSegmentCount({0, 1, MaxCells})
    \/ CallSetContentCellWidth({10 * MM + 50 * MILLI})
    \/ CallSetStartSegment({0, 20 * MM}, {""})
    \/ CallRenderToPixmap
    \/ CallSaveToPng
    \/ CallGeneratePdf({Some(0)})

SpecLayout == Init /\ [][NextLayout]_vars

\* DesignerTab.load_project with the file the user picked: on None the
\* error box is shown and the method returns, otherwise
\* load_label_strip(label_strip) makes the loaded strip the designer's;
\* an exception is caught, the strip kept
CallLoadProject(Files) ==
    \E file \in Files :
        /\ strip' = IF load_project(file).raised = "None"
                       /\ ~IsNone(load_project(file).val)
                    THEN The(load_project(file).val)
                    ELSE strip
        /\ pre' = strip
        /\ last' = CallRecord("load_project", <<file>>, load_project(file).raised)
        /\ discarded' = <<>>
        /\ output' = IF load_project(file).raised = "None"
                     THEN Some(load_project(file).val) ELSE None
        /\ UNCHANGED document

ProjectVersions ==
    {None, Some(JsonString(<<"1", ".", "0">>)), Some(JsonString(<<"1">>)),
     Some(JsonString(<<"2", ".", "1", ".">>)), Some(JsonNumber(1))}

ProjectApplications == {None, Some("Jackfield Labeler"), Some("Other")}

ProjectLabelStrips ==
    {None, Some(JsonNull), Some(<<>>),
     Some([height |-> 8 * MM,
           segments |-> <<[type |-> "start", width |-> 20 * MM],
                          [type |-> "content", width |-> 10 * MM, id |-> "1"]>>]),
     Some([segments |-> <<[type |-> "middle", width |-> 5 * MM]>>]),
     Some([segments |-> <<[text_color |-> <<"#", "z", "z", "0", "0", "0", "0">>, type |-> "end",
                           width |-> 5 * MM]>>]),
     Some([settings |-> [paper_size |-> "A4", page_margins |-> <<>>],
           segments |-> <<>>])}

ProjectFiles ==
    {NoFile, FileWith(None), FileWith(Some(JsonArray)),
     FileWith(Some(JsonNumber(5)))}
    \cup {FileWith(Some(JsonObject(Key("version", v) @@ Key("application", a)
                                       @@ Key("label_strip", ls)))) :
            v \in ProjectVersions, a \in ProjectApplications,
            ls \in ProjectLabelStrips}

NextProject ==
    \/ CallSetContentSegmentCount({0, 1})
    \/ CallSetStartSegment({0, 20 * MM}, {"S"})
    \/ CallSetHeight({8 * MM})
    \/ CallLoadProject(ProjectFiles)

SpecProject == Init /\ [][NextProject]_vars

\* ProjectManager.save_project(strip, file_path) and then
\* ProjectManager.load_project(file_path)
CallSaveThenLoad(Paths) ==
    \E file_path \in Paths :
        Returns("save_project;load_project", <<file_path>>, "None",
                save_then_load(strip, file_path))

ProjectPaths ==
    {<<"p">>, <<"p", ".", "j", "l", "p">>, <<"d", "/", "p">>,
     <<"d", "/", "p", ".", "j", "l", "p">>, <<"d", "/", "p", ".", "J", "L", "P">>,
     <<"/", "p", ".", "j", "l", "p">>, <<"d", "/", "p", ".", "j", "l">>}

NextSave ==
    \/ CallSetContentSegmentCount({0, 1})
    \/ CallSetStartSegment({0, 20 * MM}, {"S"})
    \/ CallSegmentSetText({"content"}, {"A"})
    \/ CallSetHeight({8 * MM})
    \/ CallSaveThenLoad(ProjectPaths)

SpecSave == Init /\ [][NextSave]_vars

\* the table is rebuilt from the strip, the user types a text into one
\* of its rows and the table's signal runs update_strip_from_table
CallEditRowText(Texts) ==
    \E row \in 1..Len(get_all_segments(strip)), text \in Texts :
        Call("update_table_from_strip;update_strip_from_table", <<row, text>>,
             [raised |-> "None",
              self |-> update_strip_from_table(strip,
                           with_row_text(update_table_from_strip(strip), row, text))])

NextTable ==
    \/ CallSetContentSegmentCount({0, 1})
    \/ CallSetContentCellWidth({15 * MM})
    \/ CallSetStartSegment({0, 20 * MM}, {"S"})
    \/ CallSetEndSegment({0, 20 * MM}, {"E"})
    \/ CallSegmentSetTextFormat({"content"}, {BOLD})
    \/ CallEditRowText({"A"})

SpecTable == Init /\ [][NextTable]_vars

----------------------------------------------------------------------------
(* The claims *)

\* the cap a set_start_segment or set_end_segment call is about
CapOf(self, op) ==
    IF op = "set_start_segment" THEN self.start_segment ELSE self.end_segment

\* v is w rounded to 0.001 mm: a multiple of 0.001 no farther from w than
\* half of 0.001
IsRounded3(v, w) ==
    /\ v % TicksPerMilli = 0
    /\ 2 * (v - w) <= TicksPerMilli
    /\ 2 * (w - v) <= TicksPerMilli

Clamped(h) ==
    IF h < MIN_HEIGHT THEN MIN_HEIGHT ELSE IF h > MAX_HEIGHT THEN MAX_HEIGHT ELSE h

RECURSIVE SumOfWidths(_)
SumOfWidths(segments) ==
    IF segments = <<>> THEN 0
    ELSE Head(segments).width + SumOfWidths(Tail(segments))

\* the decimal string of each position
PositionIds == <<"1", "2", "3", "4", "5", "6", "7", "8", "9">>

\* C1: in every state reached by the cap, count, shared width and
\* per-segment width calls, get_total_width() is the sum of the widths of
\* the segments of get_all_segments().
C1_TotalWidthIsSumOfSegments ==
    get_total_width(strip) = SumOfWidths(get_all_segments(strip))

\* C2: from_dict(to_dict(s)) returns a strip equal to s in height, shared
\* cell width, both caps, the content cells in order with every attribute,
\* and every settings field, the rotation angle among them.
C2_RoundTripPreservesStrip ==
    last.op = "from_dict(to_dict)" =>
        /\ last.raised = "None"
        /\ strip.height = pre.height
        /\ strip.content_cell_width = pre.content_cell_width
        /\ strip.start_segment = pre.start_segment
        /\ strip.end_segment = pre.end_segment
        /\ strip.content_segments = pre.content_segments
        /\ strip.settings.paper_size = pre.settings.paper_size
        /\ strip.settings.page_margins = pre.settings.page_margins
        /\ strip.settings.default_font_name = pre.settings.default_font_name
        /\ strip.settings.default_font_size = pre.settings.default_font_size
        /\ strip.settings.default_text_color = pre.settings.default_text_color
        /\ strip.settings.default_background_color =
               pre.settings.default_background_color
        /\ strip.settings.rotation_angle = pre.settings.rotation_angle

\* C3: every segment of the strip has width >= 0, whatever call produced
\* it: a constructor, a load from a document or a width write.
C3_SegmentWidthsNonNegative ==
    \A i \in 1..Len(get_all_segments(strip)) :
        get_all_segments(strip)[i].width >= 0

\* C4: the height is within [MIN_HEIGHT, MAX_HEIGHT] in every state; the
\* constructor and the height setter never fail and store clamp(h), which
\* is h itself when h is in range; a from_dict that returns a strip stores
\* clamp(h) of the document's height, 5.0 when the document has none.
C4_HeightClamped ==
    /\ strip.height >= MIN_HEIGHT
    /\ strip.height <= MAX_HEIGHT
    /\ last.op \in {"LabelStrip", "height"} =>
           /\ last.raised = "None"
           /\ strip.height = Clamped(last.arg[1])
    /\ (last.op = "from_dict" /\ last.raised = "None") =>
           strip.height =
               Clamped(IF "height" \in DOMAIN The(document)
                       THEN The(document).height ELSE 5 * MM)

\* a document whose height is above the range was loaded, and one call
\* stored a height in range as given
C4_Witness ==
    /\ last.op = "from_dict"
    /\ last.raised = "None"
    /\ "height" \in DOMAIN The(document)
    /\ The(document).height > MAX_HEIGHT
    /\ strip.height = MAX_HEIGHT
    /\ pre.height = 8 * MM

\* C5: content_cell_width = w with w <= 0 fails with ContentCellWidthError
\* and leaves the shared width and every cell's width unchanged; with
\* w > 0 the shared width and every cell's width become round(w, 3), and
\* the caps, the height, the number of cells and each cell's id, text,
\* format and colours are unchanged.
C5_ContentCellWidthSetter ==
    last.op = "content_cell_width" =>
        /\ Len(strip.content_segments) = Len(pre.content_segments)
        /\ last.arg[1] <= 0 =>
               /\ last.raised = "ContentCellWidthError"
               /\ strip.content_cell_width = pre.content_cell_width
               /\ \A i \in 1..Len(pre.content_segments) :
                      strip.content_segments[i].width =
                          pre.content_segments[i].width
        /\ last.arg[1] > 0 =>
               /\ last.raised = "None"
               /\ IsRounded3(strip.content_cell_width, last.arg[1])
               /\ strip.start_segment = pre.start_segment
               /\ strip.end_segment = pre.end_segment
               /\ strip.height = pre.height
               /\ \A i \in 1..Len(pre.content_segments) :
                      /\ strip.content_segments[i].width =
                             strip.content_cell_width
                      /\ strip.content_segments[i] =
                             [pre.content_segments[i] EXCEPT
                                 !.width = strip.content_cell_width]

\* a width finer than 0.001 mm was written over a cell that had its own
\* width, text and format
C5_Witness ==
    /\ last.op = "content_cell_width"
    /\ last.raised = "None"
    /\ last.arg[1] % TicksPerMilli # 0
    /\ ~IsNone(strip.start_segment)
    /\ \E i \in 1..Len(pre.content_segments) :
           /\ pre.content_segments[i].width # pre.content_cell_width
           /\ pre.content_segments[i].text = "A"
           /\ pre.content_segments[i].text_format = BOLD
           /\ strip.content_segments[i].width # pre.content_segments[i].width

\* C6: segment.width = w with w >= 0 stores round(w, 3); with w < 0 it
\* fails with SegmentWidthError and the segment is unchanged.
C6_SegmentWidthSetter ==
    last.op = "segment.width" =>
        /\ last.arg[2] >= 0 =>
               /\ last.raised = "None"
               /\ IsRounded3(segment_at(strip, last.arg[1]).width, last.arg[2])
               /\ segment_at(strip, last.arg[1]) =
                      [segment_at(pre, last.arg[1]) EXCEPT
                          !.width = segment_at(strip, last.arg[1]).width]
        /\ last.arg[2] < 0 =>
               /\ last.raised = "SegmentWidthError"
               /\ segment_at(strip, last.arg[1]) = segment_at(pre, last.arg[1])

\* a width finer than 0.001 mm was written to a segment and stored rounded
C6_Witness ==
    /\ last.op = "segment.width"
    /\ last.raised = "None"
    /\ last.arg[2] % TicksPerMilli # 0
    /\ segment_at(strip, last.arg[1]).width # last.arg[2]
    /\ segment_at(strip, last.arg[1]).width # segment_at(pre, last.arg[1]).width

\* C7: set_content_segment_count(n) with n >= 0 leaves exactly n cells,
\* and the cells appended when growing from k to n > k carry the ids
\* "k+1".."n" in order; with n < 0 it fails with ContentSegmentCountError
\* and the list of cells is unchanged.
C7_ContentSegmentCount ==
    last.op = "set_content_segment_count" =>
        /\ last.arg[1] >= 0 =>
               /\ last.raised = "None"
               /\ Len(strip.content_segments) = last.arg[1]
               /\ \A i \in (Len(pre.content_segments) + 1)..last.arg[1] :
                      strip.content_segments[i].id = PositionIds[i]
        /\ last.arg[1] < 0 =>
               /\ last.raised = "ContentSegmentCountError"
               /\ strip.content_segments = pre.content_segments

\* a strip that had cells grew
C7_Witness ==
    /\ last.op = "set_content_segment_count"
    /\ last.raised = "None"
    /\ Len(pre.content_segments) >= 1
    /\ last.arg[1] > Len(pre.content_segments)
    /\ discarded = <<>>

\* the cells were cut to m and the next call grew them again
Regrown ==
    /\ last.op = "set_content_segment_count"
    /\ last.raised = "None"
    /\ discarded # <<>>
    /\ last.arg[1] > Len(pre.content_segments)

\* C8: after set_content_segment_count(m) with m < n and then
\* set_content_segment_count(n), every cell at the positions m+1..n has
\* empty text, Normal format, the current shared width and the strip's
\* current default colours, whatever the cells cut off there had.
C8_RegrownCellsAreFresh ==
    Regrown =>
        \A i \in (Len(pre.content_segments) + 1)..last.arg[1] :
            /\ strip.content_segments[i].text = ""
            /\ strip.content_segments[i].text_format = NORMAL
            /\ strip.content_segments[i].width = strip.content_cell_width
            /\ strip.content_segments[i].text_color =
                   strip.settings.default_text_color
            /\ strip.content_segments[i].background_color =
                   strip.settings.default_background_color

\* the cell cut off had a text, a format, a width of its own and colours
\* other than the current defaults
C8_Witness ==
    /\ Regrown
    /\ discarded[1].text = "A"
    /\ discarded[1].text_format = BOLD
    /\ discarded[1].width # strip.content_cell_width
    /\ discarded[1].text_color # strip.settings.default_text_color
    /\ discarded[1].background_color # strip.settings.default_background_color

\* C9: set_start_segment(0, text) leaves start_segment None and
\* set_end_segment(0, text) leaves end_segment None, for every text and
\* whether or not the cap was there; the other cap and the cells are
\* unchanged.
C9_ZeroWidthRemovesCap ==
    (last.op \in {"set_start_segment", "set_end_segment"} /\ last.arg[1] = 0) =>
        /\ last.raised = "None"
        /\ IsNone(CapOf(strip, last.op))
        /\ last.op = "set_start_segment" => strip.end_segment = pre.end_segment
        /\ last.op = "set_end_segment" => strip.start_segment = pre.start_segment
        /\ strip.content_segments = pre.content_segments

\* a start cap that was there was removed by a call that gave a text
C9_Witness ==
    /\ last.op = "set_start_segment"
    /\ last.arg = <<0, "S">>
    /\ ~IsNone(pre.start_segment)
    /\ IsNone(strip.start_segment)
    /\ ~IsNone(strip.end_segment)
    /\ strip.content_segments # <<>>

\* C10: set_start_segment(w, t) and set_end_segment(w, t) with w > 0
\* create an absent cap with width w, text t, Normal format and the
\* strip's current default colours, and update a present cap in place: its
\* text becomes t, its width w as the width setter stores it, and its
\* format and colours are kept.  With w < 0 the call fails with
\* StartSegmentWidthError or EndSegmentWidthError and the cap is as it was.
C10_CapCreateOrUpdate ==
    last.op \in {"set_start_segment", "set_end_segment"} =>
        /\ (last.arg[1] > 0 /\ IsNone(CapOf(pre, last.op))) =>
               /\ last.raised = "None"
               /\ ~IsNone(CapOf(strip, last.op))
               /\ The(CapOf(strip, last.op)).width = last.arg[1]
               /\ The(CapOf(strip, last.op)).text = last.arg[2]
               /\ The(CapOf(strip, last.op)).text_format = NORMAL
               /\ The(CapOf(strip, last.op)).text_color =
                      strip.settings.default_text_color
               /\ The(CapOf(strip, last.op)).background_color =
                      strip.settings.default_background_color
        /\ (last.arg[1] > 0 /\ ~IsNone(CapOf(pre, last.op))) =>
               /\ last.raised = "None"
               /\ ~IsNone(CapOf(strip, last.op))
               /\ IsRounded3(The(CapOf(strip, last.op)).width, last.arg[1])
               /\ The(CapOf(strip, last.op)).text = last.arg[2]
               /\ The(CapOf(strip, last.op)).text_format =
                      The(CapOf(pre, last.op)).text_format
               /\ The(CapOf(strip, last.op)).text_color =
                      The(CapOf(pre, last.op)).text_color
               /\ The(CapOf(strip, last.op)).background_color =
                      The(CapOf(pre, last.op)).background_color
        /\ last.arg[1] < 0 =>
               /\ last.raised = IF last.op = "set_start_segment"
                                THEN "StartSegmentWidthError"
                                ELSE "EndSegmentWidthError"
               /\ CapOf(strip, last.op) = CapOf(pre, last.op)

\* a bold start cap whose colours are no longer the defaults was given a
\* new width and a new text
C10_Witness ==
    /\ last.op = "set_start_segment"
    /\ last.raised = "None"
    /\ last.arg[1] > 0
    /\ ~IsNone(pre.start_segment)
    /\ The(pre.start_segment).text_format = BOLD
    /\ The(pre.start_segment).text_color # strip.settings.default_text_color
    /\ The(pre.start_segment).text # last.arg[2]
    /\ The(pre.start_segment).width # The(strip.start_segment).width
    /\ The(strip.start_segment).width # last.arg[1]

\* the messages of the list with the phrase in their wording
WithPhrase(errors, phrase) ==
    {i \in 1..Len(errors) :
        \/ /\ phrase = "zero or negative width"
           /\ errors[i].text = "Strip has zero or negative width"
        \/ /\ phrase = "exceeds maximum"
           /\ errors[i].text \in
                  {"Strip height ({} mm) exceeds maximum ({} mm)",
                   "Total strip width ({} mm) exceeds maximum ({} mm)"}}

\* C11: whenever validate() returns an empty list, the widths of the
\* segments of get_all_segments() sum to more than 0 and at most
\* MAX_WIDTH, the height is within [MIN_HEIGHT, MAX_HEIGHT] and every
\* segment width is >= 0.
C11_ValidateEnforcesInvariant ==
    validate(strip).val = <<>> =>
        /\ SumOfWidths(get_all_segments(strip)) > 0
        /\ SumOfWidths(get_all_segments(strip)) <= MAX_WIDTH
        /\ strip.height >= MIN_HEIGHT
        /\ strip.height <= MAX_HEIGHT
        /\ \A i \in 1..Len(get_all_segments(strip)) :
               get_all_segments(strip)[i].width >= 0

C13_ValidateIsAdvisory ==
    last.op = "validate" =>
        /\ last.raised = "None"
        /\ strip.height = pre.height
        /\ strip.content_cell_width = pre.content_cell_width
        /\ strip.start_segment = pre.start_segment
        /\ strip.end_segment = pre.end_segment
        /\ strip.content_segments = pre.content_segments
        /\ strip.settings = pre.settings

\* a loaded strip with a shared width below zero was validated and found
\* faulty
C13_Witness ==
    /\ last.op = "validate"
    /\ pre.content_cell_width < 0
    /\ strip.content_segments # <<>>
    /\ Len(validate(pre).val) >= 1

\* C14: rendering a strip whose total width is 0, to a pixmap, to a PNG
\* file or to a PDF file, issues no drawing command, produces no artifact
\* (no image, no page or file) and returns a "nothing to render" result:
\* no pixmap, or False.
C14_EmptyStripRendersNothing ==
    (last.op \in {"render_to_pixmap", "save_to_png", "generate_pdf"}
        /\ get_total_width(strip) = 0) =>
        /\ The(output).commands = <<>>
        /\ IsNone(The(output).artifact)
        /\ The(output).returned \in {None, FALSE}

\* the hexadecimal digits, and each one in lowercase
LowerDigit ==
    [ch \in {"0", "1", "2", "3", "4", "5", "6", "7", "8", "9",
             "a", "b", "c", "d", "e", "f", "A", "B", "C", "D", "E", "F"} |->
        CASE ch = "A" -> "a" [] ch = "B" -> "b" [] ch = "C" -> "c"
          [] ch = "D" -> "d" [] ch = "E" -> "e" [] ch = "F" -> "f"
          [] OTHER -> ch]

\* the string with one leading "#" taken off
WithoutHash(s) == IF s # <<>> /\ Head(s) = "#" THEN Tail(s) ELSE s

\* exactly six hexadecimal digits after one optional "#"
WellFormedHex(s) ==
    /\ Len(WithoutHash(s)) = 6
    /\ \A i \in 1..6 : WithoutHash(s)[i] \in DOMAIN LowerDigit

\* the value of a lowercase digit
DigitValue ==
    [ch \in {"0", "1", "2", "3", "4", "5", "6", "7", "8", "9",
             "a", "b", "c", "d", "e", "f"} |->
        CASE ch = "0" -> 0 [] ch = "1" -> 1 [] ch = "2" -> 2 [] ch = "3" -> 3
          [] ch = "4" -> 4 [] ch = "5" -> 5 [] ch = "6" -> 6 [] ch = "7" -> 7
          [] ch = "8" -> 8 [] ch = "9" -> 9 [] ch = "a" -> 10 [] ch = "b" -> 11
          [] ch = "c" -> 12 [] ch = "d" -> 13 [] ch = "e" -> 14 [] OTHER -> 15]

\* h is "#" and six lowercase digits that spell the channels of c
IsLowerHexOf(h, c) ==
    /\ Len(h) = 7
    /\ h[1] = "#"
    /\ \A i \in 2..7 : h[i] \in DOMAIN DigitValue
    /\ 16 * DigitValue[h[2]] + DigitValue[h[3]] = c.r
    /\ 16 * DigitValue[h[4]] + DigitValue[h[5]] = c.g
    /\ 16 * DigitValue[h[6]] + DigitValue[h[7]] = c.b

\* C15: Color.from_hex(s) fails for every s that, one leading "#" taken
\* off, is not exactly six hexadecimal digits, and returns a Color only
\* for a well-formed s.
C15_FromHexRejectsMalformed ==
    last.op = "Color.from_hex" =>
        (last.raised = "None" <=> WellFormedHex(last.arg[1]))

\* C16: c.to_hex() is "#" and six lowercase hexadecimal digits, and
\* Color.from_hex(c.to_hex()) is c, for every c with channels in [0, 255];
\* Color.from_hex(s).to_hex() is the lowercase "#rrggbb" form of s for
\* every well-formed s of either case, with or without "#".
C16_HexRoundTrip ==
    /\ last.op = "Color.to_hex" =>
           /\ IsLowerHexOf(The(output).hex, last.arg[1])
           /\ The(output).back = Some(last.arg[1])
    /\ (last.op = "Color.from_hex.to_hex" /\ WellFormedHex(last.arg[1])) =>
           /\ last.raised = "None"
           /\ The(output) =
                  Some(<<"#">> \o [i \in 1..6 |->
                                     LowerDigit[WithoutHash(last.arg[1])[i]]])

\* a colour with a channel below 16 and one written with letters went to
\* hex and back
C16_Witness ==
    /\ last.op = "Color.to_hex"
    /\ last.arg[1] = Color(9, 171, 255)
    /\ The(output).hex = <<"#", "0", "9", "a", "b", "f", "f">>

\* the segment documents of the document from_dict was given
SegmentsOf(doc) == IF "segments" \in DOMAIN doc THEN doc.segments ELSE <<>>

\* the kind tag of a segment document as written, "" when it has none
TagOf(d) == IF "type" \in DOMAIN d THEN d.type ELSE ""

\* the kind tag with its letters in lowercase
LowerTag ==
    [tag \in {"start", "content", "end", "START", "Start", "CONTENT",
              "Content", "END", "End"} |->
        CASE tag \in {"start", "START", "Start"} -> "start"
          [] tag \in {"content", "CONTENT", "Content"} -> "content"
          [] OTHER -> "end"]

\* the kind a tag names when case is ignored, "" when it names none
KindOf(d) == IF TagOf(d) \in DOMAIN LowerTag THEN LowerTag[TagOf(d)] ELSE ""

\* the segment documents of one kind, in document order
RECURSIVE OfKind(_, _)
OfKind(segs, kind) ==
    IF segs = <<>> THEN <<>>
    ELSE (IF KindOf(Head(segs)) = kind THEN <<Head(segs)>> ELSE <<>>)
         \o OfKind(Tail(segs), kind)

\* the segment carries what the document gives for text and width
Carries(segment, d, kind, default_width) ==
    /\ segment.type = kind
    /\ segment.text = (IF "text" \in DOMAIN d THEN d.text ELSE "")
    /\ segment.width = (IF "width" \in DOMAIN d THEN d.width ELSE default_width)

\* the cap of the strip is the one the last document of the kind gives,
\* None when there is no such document
CapRouted(cap, docs, kind) ==
    IF docs = <<>> THEN IsNone(cap)
    ELSE ~IsNone(cap) /\ Carries(The(cap), docs[Len(docs)], kind, 0)

\* every recognized segment document went to its variant: the caps from
\* the start and end documents, the cells from the content documents in
\* document order
Routed(self, segs) ==
    /\ CapRouted(self.start_segment, OfKind(segs, "start"), "start")
    /\ CapRouted(self.end_segment, OfKind(segs, "end"), "end")
    /\ Len(self.content_segments) = Len(OfKind(segs, "content"))
    /\ \A i \in 1..Len(self.content_segments) :
           /\ Carries(self.content_segments[i], OfKind(segs, "content")[i],
                      "content", 10 * MM)
           /\ self.content_segments[i].id =
                  (IF "id" \in DOMAIN OfKind(segs, "content")[i]
                   THEN OfKind(segs, "content")[i].id ELSE "0")

FirstUnknown(segs) ==
    IF \E i \in 1..Len(segs) : KindOf(segs[i]) = ""
    THEN CHOOSE i \in 1..Len(segs) :
             /\ KindOf(segs[i]) = ""
             /\ \A j \in 1..(i - 1) : KindOf(segs[j]) # ""
    ELSE 0

FormatAsWritten(d) ==
    IF "text_format" \in DOMAIN d
          /\ d.text_format \in {"NORMAL", "BOLD", "ITALIC", "BOLD_ITALIC"}
    THEN d.text_format ELSE "NORMAL"

\* the name of a format with its letters in uppercase
UpperFormat ==
    [name \in {"NORMAL", "BOLD", "ITALIC", "BOLD_ITALIC", "normal", "bold",
               "italic", "bold_italic", "Normal", "Bold", "Italic",
               "Bold_Italic"} |->
        CASE name \in {"NORMAL", "normal", "Normal"} -> "NORMAL"
          [] name \in {"BOLD", "bold", "Bold"} -> "BOLD"
          [] name \in {"ITALIC", "italic", "Italic"} -> "ITALIC"
          [] OTHER -> "BOLD_ITALIC"]

\* the format a document names when case is ignored
FormatIgnoringCase(d) ==
    IF "text_format" \in DOMAIN d /\ d.text_format \in DOMAIN UpperFormat
    THEN UpperFormat[d.text_format] ELSE "NORMAL"

\* C18 as stated: a loaded segment has the format its document names when
\* that is one of NORMAL, BOLD, ITALIC, BOLD_ITALIC and Normal otherwise.
C18_FormatFallback_AsStated ==
    (last.op = "from_dict" /\ last.raised = "None") =>
        /\ OfKind(SegmentsOf(The(document)), "start") # <<>> =>
               The(strip.start_segment).text_format =
                   FormatAsWritten(
                       OfKind(SegmentsOf(The(document)), "start")[
                           Len(OfKind(SegmentsOf(The(document)), "start"))])
        /\ OfKind(SegmentsOf(The(document)), "end") # <<>> =>
               The(strip.end_segment).text_format =
                   FormatAsWritten(
                       OfKind(SegmentsOf(The(document)), "end")[
                           Len(OfKind(SegmentsOf(The(document)), "end"))])
        /\ \A i \in 1..Len(strip.content_segments) :
               strip.content_segments[i].text_format =
                   FormatAsWritten(OfKind(SegmentsOf(The(document)), "content")[i])

\* C18: a loaded segment of any variant has the format its document
\* names, case ignored, when that is one of NORMAL, BOLD, ITALIC,
\* BOLD_ITALIC, and Normal when the name is missing or is none of them;
\* no document is refused for its text_format: from_dict returns a strip
\* whenever its settings and every segment document with the text_format
\* taken out load.
C18_FormatFallback ==
    last.op = "from_dict" =>
        /\ last.raised = "None" =>
               /\ OfKind(SegmentsOf(The(document)), "start") # <<>> =>
                      The(strip.start_segment).text_format =
                          FormatIgnoringCase(
                              OfKind(SegmentsOf(The(document)), "start")[
                                  Len(OfKind(SegmentsOf(The(document)), "start"))])
               /\ OfKind(SegmentsOf(The(document)), "end") # <<>> =>
                      The(strip.end_segment).text_format =
                          FormatIgnoringCase(
                              OfKind(SegmentsOf(The(document)), "end")[
                                  Len(OfKind(SegmentsOf(The(document)), "end"))])
               /\ \A i \in 1..Len(strip.content_segments) :
                      strip.content_segments[i].text_format =
                          FormatIgnoringCase(
                              OfKind(SegmentsOf(The(document)), "content")[i])
        /\ (\A i \in 1..Len(SegmentsOf(The(document))) :
                create_segment_from_dict(
                    [k \in DOMAIN SegmentsOf(The(document))[i] \ {"text_format"} |->
                        SegmentsOf(The(document))[i][k]]).raised = "None") =>
               last.raised = "None"

\* a cell whose document names an unknown format and a cap whose document
\* names none were loaded as Normal
C18_Witness ==
    /\ last.op = "from_dict"
    /\ last.raised = "None"
    /\ Len(strip.content_segments) = 1
    /\ OfKind(SegmentsOf(The(document)), "content")[1].text_format = "FANCY"
    /\ strip.content_segments[1].text_format = NORMAL
    /\ ~IsNone(strip.start_segment)
    /\ "text_format" \notin DOMAIN OfKind(SegmentsOf(The(document)), "start")[1]
    /\ The(strip.start_segment).text_format = NORMAL

\* the reasons C19 lists for which a project file cannot be loaded
MissingFile(file) == ~file.exists
MalformedJson(file) == file.exists /\ IsNone(file.parsed)
IsProjectObject(file) ==
    file.exists /\ ~IsNone(file.parsed) /\ The(file.parsed).json = "object"
LacksField(file) ==
    IsProjectObject(file)
        /\ \E field \in {"version", "application", "label_strip"} :
               field \notin DOMAIN The(file.parsed).members
WrongApplication(file) ==
    IsProjectObject(file) /\ ~LacksField(file)
        /\ The(file.parsed).members.application # "Jackfield Labeler"
WrongVersion(file) ==
    IsProjectObject(file) /\ ~LacksField(file)
        /\ (The(file.parsed).members.version.json = "string" =>
                \/ Len(The(file.parsed).members.version.str) < 2
                \/ The(file.parsed).members.version.str[1] # "1"
                \/ The(file.parsed).members.version.str[2] # ".")
StripDoesNotLoad(file) ==
    IsProjectObject(file) /\ ~LacksField(file)
        /\ from_project_data(The(file.parsed).members.label_strip).raised # "None"

\* C19: ProjectManager.load_project never raises; for a missing file,
\* malformed JSON, a document lacking version, application or
\* label_strip, an application other than "Jackfield Labeler", a version
\* not starting with "1.", or a label_strip whose deserialization fails,
\* it returns None; and when it returns None the strip of the designer is
\* the one it had.
C19_LoadProjectNeverRaises ==
    last.op = "load_project" =>
        /\ last.raised = "None"
        /\ (\/ MissingFile(last.arg[1])
            \/ MalformedJson(last.arg[1])
            \/ LacksField(last.arg[1])
            \/ WrongApplication(last.arg[1])
            \/ WrongVersion(last.arg[1])
            \/ StripDoesNotLoad(last.arg[1])) => output = Some(None)
        /\ output = Some(None) => strip = pre

\* a well-formed project whose label_strip has a segment of unknown kind
\* was refused with None while the designer held a strip of its own
C19_Witness ==
    /\ last.op = "load_project"
    /\ last.raised = "None"
    /\ IsProjectObject(last.arg[1])
    /\ ~LacksField(last.arg[1])
    /\ ~WrongApplication(last.arg[1])
    /\ ~WrongVersion(last.arg[1])
    /\ StripDoesNotLoad(last.arg[1])
    /\ output = Some(None)
    /\ strip = pre
    /\ Len(strip.content_segments) = 1
    /\ ~IsNone(strip.start_segment)

\* C20: in every state reached from a fresh strip by set_start_segment,
\* set_end_segment, set_content_segment_count and content_cell_width
\* writes, the content cell at position i has the decimal string of i
\* for id, a present start cap has id "L_START", a present end cap has
\* id "L_END", and no two segments of get_all_segments() share an id.
C20_SegmentIdsUnique ==
    /\ \A i \in 1..Len(strip.content_segments) :
           strip.content_segments[i].id = PositionIds[i]
    /\ ~IsNone(strip.start_segment) => The(strip.start_segment).id = "L_START"
    /\ ~IsNone(strip.end_segment) => The(strip.end_segment).id = "L_END"
    /\ \A i, j \in 1..Len(get_all_segments(strip)) :
           get_all_segments(strip)[i].id = get_all_segments(strip)[j].id
               => i = j

\* a strip with both caps whose cells were cut and grown again to the
\* full count
C20_Witness ==
    /\ last.op = "set_content_segment_count"
    /\ last.raised = "None"
    /\ 1 <= Len(pre.content_segments)
    /\ Len(pre.content_segments) < Len(strip.content_segments)
    /\ Len(strip.content_segments) = MaxCells
    /\ discarded # <<>>
    /\ ~IsNone(strip.start_segment)
    /\ ~IsNone(strip.end_segment)
    /\ Len(get_all_segments(strip)) = MaxCells + 2

\* C21: every Color obtained by direct construction or by Color.from_hex
\* on a string it accepts has each of r, g and b within 0..255.
C21_ChannelsInRange ==
    (last.op \in {"Color", "Color.from_hex"} /\ last.raised = "None") =>
        /\ The(The(output)).r \in 0..255
        /\ The(The(output)).g \in 0..255
        /\ The(The(output)).b \in 0..255

\* C22: in every state reached by set_start_segment and set_end_segment
\* calls with widths w >= 0, a cap that is present has a stored width
\* > 0, so get_all_segments() holds no cap of width 0.
C22_PresentCapHasPositiveWidth ==
    /\ ~IsNone(strip.start_segment) => The(strip.start_segment).width > 0
    /\ ~IsNone(strip.end_segment) => The(strip.end_segment).width > 0
    /\ \A i \in 1..Len(get_all_segments(strip)) :
           get_all_segments(strip)[i].type \in {"start", "end"}
               => get_all_segments(strip)[i].width # 0

\* C23: content_cell_width > 0 in every reachable state, after
\* successful and failed content_cell_width writes and after from_dict
\* on any document.
C23_ContentCellWidthPositive ==
    strip.content_cell_width > 0

\* C29: after a successful set_start_segment(w, t) or set_end_segment(w,
\* t) with w > 0 the stored width of the cap is round(w, 3), whether the
\* cap was absent or present before the call.
C29_CapWidthIsRounded ==
    (last.op \in {"set_start_segment", "set_end_segment"}
         /\ last.raised = "None" /\ last.arg[1] > 0) =>
        /\ ~IsNone(CapOf(strip, last.op))
        /\ IsRounded3(The(CapOf(strip, last.op)).width, last.arg[1])

\* the printable area of the page of the strip: the page less its margins
PrintableWidth(self) ==
    PAPER_SIZES[self.settings.paper_size][1]
        - self.settings.page_margins.left - self.settings.page_margins.right
PrintableHeight(self) ==
    PAPER_SIZES[self.settings.paper_size][2]
        - self.settings.page_margins.top - self.settings.page_margins.bottom
FitsUnrotated(self) ==
    get_total_width(self) <= PrintableWidth(self)
        /\ self.height <= PrintableHeight(self)
FitsRotated(self) ==
    self.height <= PrintableWidth(self)
        /\ get_total_width(self) <= PrintableHeight(self)

\* C25: calculate_required_rotation selects 90 degrees if and only if
\* the unrotated strip does not fit the printable area and the strip
\* rotated by 90 degrees does; whenever the unrotated strip fits it
\* selects no rotation.
C25_AutomaticRotation ==
    last.op = "calculate_required_rotation" =>
        /\ The(output) = Some(90) <=> (~FitsUnrotated(strip) /\ FitsRotated(strip))
        /\ FitsUnrotated(strip) => The(output) = None

\* the rectangles a rendering filled, in the order it drew them
IsFilledRectangle(command) ==
    \/ command.op = "fillRect"
    \/ command.op = "rect" /\ command.fill = 1
FilledRectangles(commands) == SelectSeq(commands, IsFilledRectangle)

\* the scale of the renderer the last call ran, device units per tick as
\* a fraction: pixels per mm for the two Qt renderings, the half ticks
\* the PDF lengths are counted in
ScaleOf(op) ==
    CASE op = "render_to_pixmap" -> [numerator |-> 10, denominator |-> MM]
      [] op = "save_to_png" -> [numerator |-> 3000, denominator |-> 254 * MM]
      [] OTHER -> [numerator |-> 2, denominator |-> 1]

\* the x the renderer was told to draw the strip at
OriginOf(op, self) ==
    IF op = "generate_pdf" THEN -get_total_width(self) ELSE 0

\* the device length d is the length w at the scale, cut to a whole
\* device unit at most
AtScale(d, w, scale) ==
    /\ d * scale.denominator <= w * scale.numerator
    /\ w * scale.numerator < (d + 1) * scale.denominator

\* C24: for a non-empty strip rendered at scale s the renderer draws the
\* segments of get_all_segments() in order, the first rectangle starts
\* at the origin, each rectangle has the device width of its segment and
\* starts where the previous one ends, and the last rectangle ends at
\* origin + get_total_width() * s, the right edge of the canvas.
C24_LayoutTiling ==
    (last.op \in {"render_to_pixmap", "save_to_png", "generate_pdf"}
         /\ get_total_width(strip) > 0
         /\ ~IsNone(The(output).artifact)) =>
        /\ Len(FilledRectangles(The(output).commands)) = Len(get_all_segments(strip))
        /\ \A i \in 1..Len(FilledRectangles(The(output).commands)) :
               /\ FilledRectangles(The(output).commands)[i].color =
                      get_all_segments(strip)[i].background_color
               /\ AtScale(FilledRectangles(The(output).commands)[i].width,
                          get_all_segments(strip)[i].width, ScaleOf(last.op))
               /\ FilledRectangles(The(output).commands)[i].x =
                      IF i = 1 THEN OriginOf(last.op, strip)
                      ELSE FilledRectangles(The(output).commands)[i - 1].x
                           + FilledRectangles(The(output).commands)[i - 1].width
        /\ AtScale(FilledRectangles(The(output).commands)[
                       Len(FilledRectangles(The(output).commands))].x
                   + FilledRectangles(The(output).commands)[
                         Len(FilledRectangles(The(output).commands))].width
                   - OriginOf(last.op, strip),
                   get_total_width(strip), ScaleOf(last.op))

\* the text commands of a rendering, in the order it drew them
IsTextCommand(command) == command.op \in {"drawText", "drawString"}
TextCommands(commands) == SelectSeq(commands, IsTextCommand)

\* the segments a renderer draws a text for
HasText(segment) == segment.text # ""
TextSegments(self) == SelectSeq(get_all_segments(self), HasText)

\* whether the face of a text command is bold, is italic
BoldFace(command) ==
    IF command.op = "drawText" THEN command.font.bold
    ELSE command.font.name \in {"Helvetica-Bold", "Helvetica-BoldOblique"}
ItalicFace(command) ==
    IF command.op = "drawText" THEN command.font.italic
    ELSE command.font.name \in {"Helvetica-Oblique", "Helvetica-BoldOblique"}

\* C26: in every renderer the face selected for a segment with text is
\* bold if and only if its format is Bold or BoldItalic and italic if and
\* only if its format is Italic or BoldItalic.
C26_FontFaceFollowsFormat ==
    last.op \in {"render_to_pixmap", "save_to_png", "generate_pdf"} =>
        /\ Len(TextCommands(The(output).commands)) \in {0, Len(TextSegments(strip))}
        /\ \A i \in 1..Len(TextCommands(The(output).commands)) :
               /\ BoldFace(TextCommands(The(output).commands)[i])
                      <=> TextSegments(strip)[i].text_format \in {BOLD, BOLD_ITALIC}
               /\ ItalicFace(TextCommands(The(output).commands)[i])
                      <=> TextSegments(strip)[i].text_format \in {ITALIC, BOLD_ITALIC}

\* C27: set_content_segment_count(n) on a strip with k cells leaves the
\* first min(k, n) content cells as they were, in the same order, and
\* leaves the height, the shared cell width, both caps and the settings
\* unchanged; set_content_segment_count(k) changes nothing.
C27_CountKeepsTheRest ==
    (last.op = "set_content_segment_count" /\ last.raised = "None") =>
        /\ \A i \in 1..Min(Len(pre.content_segments), last.arg[1]) :
               strip.content_segments[i] = pre.content_segments[i]
        /\ strip.height = pre.height
        /\ strip.content_cell_width = pre.content_cell_width
        /\ strip.start_segment = pre.start_segment
        /\ strip.end_segment = pre.end_segment
        /\ strip.settings = pre.settings
        /\ last.arg[1] = Len(pre.content_segments) => strip = pre

\* a strip with a start cap and two cells, the first with a text, a
\* format and a width of its own, was cut to one cell
C27_Witness ==
    /\ last.op = "set_content_segment_count"
    /\ last.raised = "None"
    /\ Len(pre.content_segments) = 2
    /\ last.arg[1] = 1
    /\ pre.content_segments[1].text = "A"
    /\ pre.content_segments[1].text_format = BOLD
    /\ pre.content_segments[1].width # pre.content_cell_width
    /\ pre.content_segments[1].text_color # pre.settings.default_text_color
    /\ ~IsNone(pre.start_segment)
    /\ strip.content_segments = <<pre.content_segments[1]>>

\* C28: for every path p and strip s, if save_project(s, p) returns True
\* then a following load_project(p) with the same p returns a strip
\* equal to s, not None.
C28_SaveThenLoad ==
    (last.op = "save_project;load_project" /\ The(output).saved) =>
        /\ ~IsNone(The(output).loaded)
        /\ The(The(output).loaded) = strip

\* C30: after update_table_from_strip has rebuilt the table, an
\* update_strip_from_table in which the user changed the text of one row
\* only leaves the width, format, text color and background color of
\* every segment, and the text of every other segment, as they were
\* before the rebuild.
C30_TableSyncKeepsTheRest ==
    last.op = "update_table_from_strip;update_strip_from_table" =>
        /\ Len(get_all_segments(strip)) = Len(get_all_segments(pre))
        /\ \A i \in 1..Len(get_all_segments(strip)) :
               /\ get_all_segments(strip)[i].width = get_all_segments(pre)[i].width
               /\ get_all_segments(strip)[i].text_format =
                      get_all_segments(pre)[i].text_format
               /\ get_all_segments(strip)[i].text_color =
                      get_all_segments(pre)[i].text_color
               /\ get_all_segments(strip)[i].background_color =
                      get_all_segments(pre)[i].background_color
               /\ i # last.arg[1] =>
                      get_all_segments(strip)[i].text = get_all_segments(pre)[i].text

====
